---- MODULE Spec2Model ----
(***************************************************************************)
(* The POTA relay orchestrator (relay-server.js, class RelayServer) with   *)
(* its backend clients, as a state machine.                                *)
(*                                                                         *)
(* Scheduling follows Node's event loop.  A step of the model is one       *)
(* callback run to completion:                                             *)
(*  - a macrotask: an API call arriving over IPC or from the tray menu, an *)
(*    HTTP request, a socket event of a backend call, a connection closing;*)
(*  - a process.nextTick callback (tickQ): net.Server emits 'listening',   *)
(*    the bind 'error' and 'close' on the next tick;                       *)
(*  - a promise reaction (microQ): the .then() of updateConfig.            *)
(* After every callback Node drains tickQ, then microQ, and repeats until  *)
(* both are empty; only then the next macrotask runs.                      *)
(***************************************************************************)
EXTENDS Integers, Sequences, FiniteSets, TLC

(* ---------------------------------------------------------------- bounds *)
\* API calls (start, stop, updateConfig) issued over a run.
MaxCalls == 3
\* HTTP requests received over a run, and how many of them are in flight at once.
MaxRequests == 1
MaxInFlight == 1
\* API calls (start, updateConfig) over a run that exercises the backends.
MaxRelayCalls == 2
\* API calls (start, updateConfig) over a run of repeated reconfiguration.
MaxReconfigureCalls == MaxCalls + 1
\* HTTP requests over a run in which one request outlives a reconfiguration.
MaxOverlapRequests == MaxRequests + 1
\* HTTP requests over a run in which tuning requests race, and how many of them
\* are in flight at once.
MaxRaceRequests == MaxRequests + 1
MaxRacing == MaxInFlight + 1
\* Code units of a command text handed to the frame codec.
MaxCommandLen == 2
\* 'data' events in which a stream is delivered.
MaxReads == 3
\* HRD commands sent over a run.
MaxCommands == 2
\* QSOs submitted from the log modal of the mobile client over a run.
MaxSubmits == 2
MaxDeletes == 1

(* ------------------------------------------------------ program constants *)
DefaultHttpPort == 7810
AltHttpPort == DefaultHttpPort + 1
Ports == {DefaultHttpPort, AltHttpPort}
DefaultFlrigPort == 12345
AltFlrigPort == DefaultFlrigPort + 1
FlrigPorts == {DefaultFlrigPort, AltFlrigPort}
DefaultN1mmPort == 12060
AltN1mmPort == DefaultN1mmPort + 1
N1mmPorts == {DefaultN1mmPort, AltN1mmPort}

RadioModes == {"none", "hrd", "flrig"}
LoggingModes == {"none", "hrd", "n1mm"}

Null == 0
\* "no FLRIG client": this.flrigClient = null
NullClient == [port |-> Null]
CallIds == 1..MaxReconfigureCalls
ReqIds == 1..MaxOverlapRequests

VARIABLES
  config,       \* this.config
  httpServer,   \* this.httpServer: Null or the id of an http.Server
  isRunning,    \* this.isRunning
  flrigClient,  \* this.flrigClient: NullClient or a client record
  n1mmLogger,   \* this.n1mmLogger: Null or the id of an N1MMLogger
  stats,        \* this.stats
  servers,      \* the http.Server objects created by start(), by the id of the call
  loggers,      \* the N1MMLogger objects created so far (each owns a UDP socket)
  nCalls,       \* number of API calls issued so far
  tickQ,        \* pending process.nextTick callbacks, in order
  microQ,       \* pending promise reactions, in order
  inMicro,      \* TRUE while Node is draining the microtask queue
  foreign,      \* ports held by other processes
  nReqs,        \* number of HTTP requests received so far
  reqs,         \* the HTTP requests whose connection is open
  out           \* what the last step showed its callers: the API call it issued,
                \* the promises it settled, the status events it emitted

\* One HRD command at the level of bytes: the frame codec and the response reader.
VARIABLES
  command,         \* the command text, a sequence of UTF-16 code units
  prependContext,  \* the prependContext argument
  frame,           \* the buffer buildHRDFrame returned
  buffer,          \* the bytes handed to parseHRDResponse / gathered by readHRDResponse
  parsed,          \* what parseHRDResponse returned
  pc,              \* how far the command has come
  sockets,         \* the net.Socket objects created so far: state, frames written
  stream,          \* all the bytes the peer sends on the current connection
  incoming,        \* the part of stream that has not been delivered yet
  reads,           \* number of 'data' events on the current socket
  timeoutHandle,   \* the timer of readHRDResponse
  response,        \* the promise readHRDResponse returned
  result,          \* the promise sendHRDCommand returned
  closeListener    \* readHRDResponse listens to 'close' (relay.js) or not (relay-server.js)

\* One test() call on a FLRIGClient.
VARIABLES
  rpcData,         \* the body of the HTTP response FLRIG gives to each method
  rpcCall          \* the call: the method awaited, what was parsed, the promise of test()

\* One contact record and what is built from it.
VARIABLES
  qso,             \* the contact record: the parsed body of /log, or a spot of the client
  document         \* what was built from it, and by which function

VARIABLES
  hrdSettings,     \* the mobile client's HRD settings
  submit,          \* handleLogSubmit: where it stands, and what it has done
  internalLogs,    \* AsyncStorage, key @pota_hunter:internal_logs
  nSubmits,        \* QSOs submitted so far
  removal          \* deleteLogEntry: where it stands, and what it has read

VARIABLES
  rig              \* the command frames written to HRD, in order, where they are followed

VARIABLES
  store            \* the settings file of the desktop app (electron-store)

relay == <<config, httpServer, isRunning, flrigClient, n1mmLogger, stats, servers,
           loggers, nCalls, tickQ, microQ, inMicro, foreign, nReqs, reqs, out>>
wire == <<command, prependContext, frame, buffer, parsed, pc, sockets, stream, incoming,
          reads, timeoutHandle, response, result, closeListener>>
codec == <<command, prependContext, frame, buffer, parsed, pc>>
reader == <<sockets, stream, incoming, reads, timeoutHandle, response, result, closeListener>>
xmlrpc == <<rpcData, rpcCall>>
contact == <<qso, document>>
mobile == <<hrdSettings, submit, internalLogs, nSubmits, removal>>
others == <<xmlrpc, contact, mobile>>
vars == <<relay, wire, others, rig, store>>

(* ------------------------------------------------------------- the config *)
\* The fields of RelayConfig the orchestrator's behaviour depends on.
Configs == [httpPort : Ports, radioControl : RadioModes, loggingMode : LoggingModes,
            flrigPort : FlrigPorts, n1mmPort : N1mmPorts]

\* A merge that resets the modes newConfig does not name.
MergeConfig_resetsModes(cfg, newConfig) ==
  [f \in DOMAIN cfg |-> IF f \in DOMAIN newConfig THEN newConfig[f]
                        ELSE IF f \in {"radioControl", "loggingMode"} THEN "none" ELSE cfg[f]]

\* { ...this.config, ...newConfig }: fields absent from newConfig are kept.
MergeConfig(cfg, newConfig) ==
  [f \in DOMAIN cfg |-> IF f \in DOMAIN newConfig THEN newConfig[f] ELSE cfg[f]]

\* The partial configs handed to updateConfig: a change of one mode, or of the port.
ModeChanges ==
  {[radioControl |-> m] : m \in RadioModes} \cup {[loggingMode |-> m] : m \in LoggingModes}
NewConfigs == ModeChanges \cup {[httpPort |-> p] : p \in Ports}

\* The partial configs that change a backend client: a mode, the port of a
\* backend, or both at once.
ClientChanges ==
  ModeChanges
    \cup {[flrigPort |-> p] : p \in FlrigPorts} \cup {[n1mmPort |-> p] : p \in N1mmPorts}
    \cup {[radioControl |-> "flrig", flrigPort |-> AltFlrigPort],
          [loggingMode |-> "n1mm", n1mmPort |-> AltN1mmPort]}

\* The empty partial config.
NoChange == [f \in {} |-> Null]

(* ------------------------------------------------------------ small helpers *)
NoServer == [st |-> "none", port |-> Null, cbs |-> <<>>]
NoResp == [status |-> 0, success |-> FALSE, message |-> ""]
NoReq == [st |-> "none", kind |-> "none", body |-> "none", srv |-> Null, conn |-> "none",
          mode |-> "none", step |-> 0, cmd |-> "", client |-> NullClient, logger |-> Null,
          resp |-> NoResp, log |-> <<>>, error |-> "", datagram |-> ""]

\* The step outputs: nothing called, settled or emitted.
Quiet == [call |-> "none", settled |-> <<>>, emits |-> <<>>]
Called(op) == [Quiet EXCEPT !.call = op]
\* The promise of API call c (an op) settled with res.
Settled(c, op, res) == [c |-> c, op |-> op, res |-> res]

\* The requests whose connection is open.
InFlight == {r \in ReqIds : reqs[r].conn = "open"}

\* Connections of server s that are still open (server.close waits for them).
OpenConns(s) == {r \in ReqIds : reqs[r].srv = s /\ reqs[r].conn = "open"}

\* No macrotask runs while a nextTick callback or a promise reaction is pending.
Idle == tickQ = <<>> /\ microQ = <<>>

(* -------------------------------------------------------------- constructor *)
\* new FLRIGClient(host, port)
FLRIGClient(port) == [port |-> port]
\* new N1MMLogger(host, port): creates its UDP socket at once.
N1MMLogger(port) == [port |-> port, open |-> TRUE]

\* The configs the relay is constructed with: the default ports, every mode.
InitConfigs ==
  {cfg \in Configs : /\ cfg.httpPort = DefaultHttpPort
                     /\ cfg.flrigPort = DefaultFlrigPort
                     /\ cfg.n1mmPort = DefaultN1mmPort}

\* No command is being encoded or read.
NotParsed == [error |-> "not parsed", data |-> <<>>]
\* A promise nobody created, one that is pending, one that is settled.
NoPromise == [state |-> "none", value |-> <<>>, error |-> ""]
PendingPromise == [state |-> "pending", value |-> <<>>, error |-> ""]
Resolve(value) == [state |-> "resolved", value |-> value, error |-> ""]
Reject(error) == [state |-> "rejected", value |-> <<>>, error |-> error]

\* No socket, no reader.
NoSocket ==
  /\ sockets = <<>>
  /\ stream = <<>>
  /\ incoming = <<>>
  /\ reads = 0
  /\ timeoutHandle = "none"
  /\ response = NoPromise
  /\ result = NoPromise
  /\ closeListener = FALSE

NoCommand ==
  /\ command = <<>>
  /\ prependContext = FALSE
  /\ frame = <<>>
  /\ buffer = <<>>
  /\ parsed = NotParsed
  /\ pc = "idle"
  /\ NoSocket

\* No XML-RPC call has been made.
NoRpcCall == [pc |-> "idle", got |-> <<>>, freq |-> [nan |-> TRUE, n |-> 0, micro |-> 0],
              promise |-> NoPromise]
NoRpc ==
  /\ rpcData = <<>>
  /\ rpcCall = NoRpcCall

\* No contact is being converted.
NotBuilt == [by |-> "none", threw |-> FALSE, text |-> ""]
NoContact ==
  /\ qso = <<>>
  /\ document = NotBuilt

\* The mobile client is not at work.
NoSubmit == [pc |-> "idle", id |-> 0, hrd |-> "none", loggedToHRD |-> FALSE,
             hrdErrorMessage |-> "", saves |-> 0, entry |-> <<>>, updated |-> <<>>,
             stored |-> FALSE, commented |-> FALSE, reSpotted |-> FALSE, alert |-> "",
             threw |-> FALSE]
NoRemoval == [pc |-> "idle", id |-> 0, filtered |-> <<>>, n |-> 0, deleted |-> FALSE]
NoMobile ==
  /\ hrdSettings = [enabled |-> FALSE]
  /\ submit = NoSubmit
  /\ internalLogs = <<>>
  /\ nSubmits = 0
  /\ removal = NoRemoval

\* The radio behind HRD: the command frames written to it, in order, and the
\* requests whose frequency and whose mode it was last given.  It is followed in
\* the specification of racing requests only.
NotFollowed == [followed |-> FALSE, frames |-> <<>>, frequency |-> Null, mode |-> Null]
Followed == [NotFollowed EXCEPT !.followed = TRUE]

\* Nothing but the orchestrator and its HRD commands is at work.
NothingElse == NoRpc /\ NoContact /\ NoMobile

\* The orchestrator after "new RelayServer(config)".
\* initializeRelay builds the config of the relay from the settings file, so the
\* file holds the modes of the config when the relay is constructed.  Of the
\* stored settings only radioControl is read again later (test-hrd-connection).
Saved(cfg) == [radioControl |-> cfg.radioControl]

Constructed ==
  /\ config \in InitConfigs
  /\ httpServer = Null
  /\ isRunning = FALSE
  /\ flrigClient = IF config.radioControl = "flrig" THEN FLRIGClient(config.flrigPort) ELSE NullClient
  /\ loggers = IF config.loggingMode = "n1mm" THEN <<N1MMLogger(config.n1mmPort)>> ELSE <<>>
  /\ n1mmLogger = IF config.loggingMode = "n1mm" THEN 1 ELSE Null
  /\ stats = [requestCount |-> 0, errorCount |-> 0, lastRequest |-> Null, startTime |-> Null]
  /\ servers = [c \in CallIds |-> NoServer]
  /\ nCalls = 0
  /\ tickQ = <<>>
  /\ microQ = <<>>
  /\ inMicro = FALSE
  /\ foreign = {}
  /\ nReqs = 0
  /\ reqs = [r \in ReqIds |-> NoReq]
  /\ out = Quiet

Init == Constructed /\ NoCommand /\ NothingElse /\ rig = NotFollowed /\ store = Saved(config)

(* ------------------------------------------------------------ start / stop *)
\* net.Server.listen binds synchronously; the port is free when no other
\* process and no listening server of this process holds it.
PortFree(p) ==
  /\ p \notin foreign
  /\ \A s \in CallIds : ~(servers[s].st = "listening" /\ servers[s].port = p)

\* A start() without its guard.
startRejects_never == FALSE

\* start(): "if (this.isRunning) reject(new Error('Server already running'))"
startRejects == isRunning

\* start() called as (or inside) API call c, an op, with o the step's outputs so far.
\* It creates server c, binds it to the (new) config's port and leaves the
\* outcome to the next tick.
start(c, op, o) ==
  IF startRejects
  THEN /\ out' = [o EXCEPT !.settled = Append(@, Settled(c, op, "already running"))]
       /\ UNCHANGED <<servers, httpServer, tickQ>>
  ELSE LET port == config'.httpPort
           free == PortFree(port)
       IN /\ servers' = [servers EXCEPT ![c] = IF free
                           THEN [st |-> "listening", port |-> port, cbs |-> <<>>]
                           ELSE [st |-> "failed", port |-> Null, cbs |-> <<>>]]
          /\ httpServer' = c
          /\ tickQ' = Append(tickQ, [t |-> IF free THEN "listening" ELSE "error",
                                     s |-> c, op |-> op])
          /\ out' = o

\* stop(): "if (!this.isRunning) reject(new Error('Server not running'))"
stopRejects == ~isRunning

\* stop() called as (or inside) API call c, an op; newConfig is what an
\* updateConfig will apply once stopped.  this.httpServer.close(cb) releases the
\* listening handle, registers cb for the 'close' event, and emits 'close' on the
\* next tick once no connection is left (at once when there is none).
stop(c, op, newConfig) ==
  IF stopRejects
  THEN /\ out' = [Called(op) EXCEPT !.settled = <<Settled(c, op, "not running")>>]
       /\ UNCHANGED <<servers, tickQ>>
  ELSE LET s == httpServer IN
       /\ servers' = [servers EXCEPT
                        ![s].cbs = Append(@, [c |-> c, op |-> op, newConfig |-> newConfig, s |-> s]),
                        ![s].st = IF @ = "listening" THEN "closing" ELSE @]
       /\ tickQ' = IF OpenConns(s) = {}
                   THEN Append(tickQ, [t |-> "close", s |-> s, op |-> op]) ELSE tickQ
       /\ out' = Called(op)

\* ipcMain 'start-server' / tray 'Start Server' -> startServer() -> relayServer.start()
startServer(budget) ==
  /\ UNCHANGED <<wire, others, rig, store>>
  /\ Idle
  /\ nCalls < budget
  /\ nCalls' = nCalls + 1
  /\ UNCHANGED <<config, isRunning, flrigClient, n1mmLogger, stats, loggers, microQ,
                 inMicro, foreign, nReqs, reqs>>
  /\ start(nCalls + 1, "start", Called("start"))

\* ipcMain 'stop-server' / tray 'Stop Server' -> stopServer() -> relayServer.stop()
stopServer(budget) ==
  /\ UNCHANGED <<wire, others, rig, store>>
  /\ Idle
  /\ nCalls < budget
  /\ nCalls' = nCalls + 1
  /\ UNCHANGED <<config, httpServer, isRunning, flrigClient, n1mmLogger, stats, loggers,
                 microQ, inMicro, foreign, nReqs, reqs>>
  /\ stop(nCalls + 1, "stop", NoChange)

(* ------------------------------------------------------------ updateConfig *)
\* An updateConfig that drops a deselected N1MM logger without closing it.
applyConfig_keepsSocket(cfg) ==
  /\ config' = cfg
  /\ flrigClient' = IF cfg.radioControl = "flrig" THEN FLRIGClient(cfg.flrigPort) ELSE NullClient
  /\ IF cfg.loggingMode = "n1mm"
     THEN /\ loggers' = Append(loggers, N1MMLogger(cfg.n1mmPort))
          /\ n1mmLogger' = Len(loggers) + 1
     ELSE /\ loggers' = loggers
          /\ n1mmLogger' = Null

\* The client objects updateConfig builds for the merged config cfg:
\* a fresh FLRIGClient when radioControl is flrig, else none; a fresh
\* N1MMLogger when loggingMode is n1mm, else the current one is closed and dropped.
applyConfig(cfg) ==
  /\ config' = cfg
  /\ flrigClient' = IF cfg.radioControl = "flrig" THEN FLRIGClient(cfg.flrigPort) ELSE NullClient
  /\ IF cfg.loggingMode = "n1mm"
     THEN /\ loggers' = Append(loggers, N1MMLogger(cfg.n1mmPort))
          /\ n1mmLogger' = Len(loggers) + 1
     ELSE IF n1mmLogger # Null
     THEN /\ loggers' = [loggers EXCEPT ![n1mmLogger].open = FALSE]
          /\ n1mmLogger' = Null
     ELSE UNCHANGED <<loggers, n1mmLogger>>

\* An updateConfig that always takes its not-running branch.
wasRunning_never == FALSE

\* "const wasRunning = this.isRunning"
wasRunning == isRunning

\* ipcMain 'update-server-config' -> relayServer.updateConfig(newConfig).
\* Running: stop() now, the rest in the .then() reaction (updateThen).
\* Not running: the config and the clients are replaced at once.
updateConfig(budget, newConfigs) ==
  /\ UNCHANGED <<wire, others, rig, store>>
  /\ Idle
  /\ nCalls < budget
  /\ nCalls' = nCalls + 1
  /\ \E newConfig \in newConfigs :
       IF wasRunning
       THEN /\ UNCHANGED <<config, flrigClient, n1mmLogger, loggers, httpServer>>
            /\ stop(nCalls + 1, "update", newConfig)
       ELSE /\ applyConfig(MergeConfig(config, newConfig))
            /\ out' = [Called("update") EXCEPT !.settled = <<Settled(nCalls + 1, "update", "ok")>>]
            /\ UNCHANGED <<servers, tickQ, httpServer>>
  /\ UNCHANGED <<isRunning, stats, microQ, inMicro, foreign, nReqs, reqs>>

\* The reaction of "this.stop().then(() => { ...; return this.start(); })":
\* replace the config, rebuild the clients, start again.
updateThen(cb) ==
  /\ applyConfig(MergeConfig(config, cb.newConfig))
  /\ start(cb.c, "update", Quiet)

(* ------------------------------------------------------- the event loop *)
\* A 'listening' callback that starts the statistics afresh.
onListening_resetsStats(e) ==
  IF servers[e.s].st = "listening"
  THEN /\ isRunning' = TRUE
       /\ stats' = [requestCount |-> 0, errorCount |-> 0, lastRequest |-> Null, startTime |-> e.s]
       /\ out' = [Quiet EXCEPT !.emits = <<"started">>,
                               !.settled = <<Settled(e.s, e.op, "ok")>>]
  ELSE /\ out' = Quiet
       /\ UNCHANGED <<isRunning, stats>>

\* The 'listening' callback of start().  emitListeningNT emits only while the
\* server still has its handle.
onListening(e) ==
  IF servers[e.s].st = "listening"
  THEN /\ isRunning' = TRUE
       /\ stats' = [stats EXCEPT !.startTime = e.s]
       /\ out' = [Quiet EXCEPT !.emits = <<"started">>,
                               !.settled = <<Settled(e.s, e.op, "ok")>>]
  ELSE /\ out' = Quiet
       /\ UNCHANGED <<isRunning, stats>>

\* The 'error' handler of start(): "reject(err)".
onListenError(e) ==
  /\ out' = [Quiet EXCEPT !.settled = <<Settled(e.s, e.op, "EADDRINUSE")>>]
  /\ UNCHANGED <<isRunning, stats>>

\* What one close callback of stop() does to the running flag.
closedFlag == FALSE

\* The 'close' event of server s: every callback registered by stop() runs,
\* "this.isRunning = false; this.emit('stopped'); resolve()".  A resolved stop()
\* of an updateConfig queues its reaction.
onClose(s) ==
  LET cbs == servers[s].cbs
      stops == SelectSeq(cbs, LAMBDA cb : cb.op = "stop") IN
  /\ servers' = [servers EXCEPT ![s].cbs = <<>>,
                                ![s].st = IF @ = "closing" THEN "closed" ELSE @,
                                ![s].port = IF servers[s].st = "closing" THEN Null ELSE @]
  /\ isRunning' = IF cbs = <<>> THEN isRunning ELSE closedFlag
  /\ out' = [Quiet EXCEPT !.emits = [i \in 1..Len(cbs) |-> "stopped"],
                          !.settled = [i \in 1..Len(stops) |-> Settled(stops[i].c, "stop", "ok")]]
  /\ microQ' = microQ \o SelectSeq(cbs, LAMBDA cb : cb.op = "update")

\* process.nextTick queue: drained before the microtask queue.
runTick ==
  /\ UNCHANGED <<wire, others, rig, store>>
  /\ tickQ # <<>>
  /\ ~inMicro
  /\ tickQ' = Tail(tickQ)
  /\ LET e == Head(tickQ) IN
       \/ /\ e.t = "listening"
          /\ onListening(e)
          /\ UNCHANGED <<servers, microQ>>
       \/ /\ e.t = "error"
          /\ onListenError(e)
          /\ UNCHANGED <<servers, microQ>>
       \/ /\ e.t = "close"
          /\ onClose(e.s)
          /\ UNCHANGED stats
  /\ UNCHANGED <<config, httpServer, flrigClient, n1mmLogger, loggers, nCalls, inMicro,
                 foreign, nReqs, reqs>>

\* The microtask queue: once Node starts draining it, it runs until empty.
runMicrotask ==
  /\ UNCHANGED <<wire, others, rig, store>>
  /\ microQ # <<>>
  /\ inMicro \/ tickQ = <<>>
  /\ microQ' = Tail(microQ)
  /\ inMicro' = (Tail(microQ) # <<>>)
  /\ updateThen(Head(microQ))
  /\ UNCHANGED <<isRunning, stats, nCalls, foreign, nReqs, reqs>>

(* --------------------------------------------------------- the environment *)
\* Another process binds or releases one of the ports.
portTaken ==
  /\ UNCHANGED <<wire, others, rig, store>>
  /\ Idle
  /\ \E p \in Ports : PortFree(p) /\ foreign' = foreign \cup {p}
  /\ out' = Quiet
  /\ UNCHANGED <<config, httpServer, isRunning, flrigClient, n1mmLogger, stats, servers,
                 loggers, nCalls, tickQ, microQ, inMicro, nReqs, reqs>>

portReleased ==
  /\ UNCHANGED <<wire, others, rig, store>>
  /\ Idle
  /\ \E p \in foreign : foreign' = foreign \ {p}
  /\ out' = Quiet
  /\ UNCHANGED <<config, httpServer, isRunning, flrigClient, n1mmLogger, stats, servers,
                 loggers, nCalls, tickQ, microQ, inMicro, nReqs, reqs>>

(* ------------------------------------------------------ strings and numbers *)
Min(a, b) == IF a < b THEN a ELSE b

CharAt(s, i) == SubSeq(s, i, i)

\* The first index from which t occurs in s at or after from; 0 when there is none.
IndexOf(s, t, from) ==
  LET hits == {i \in from..(Len(s) - Len(t) + 1) : SubSeq(s, i, i + Len(t) - 1) = t}
  IN IF hits = {} THEN 0 ELSE CHOOSE i \in hits : \A j \in hits : i <= j

Contains(s, t) == IndexOf(s, t, 1) # 0

\* What sendRequest resolves with: the text parseXMLRPC captured, or null.
NullValue == [null |-> TRUE, text |-> ""]
Text(t) == [null |-> FALSE, text |-> t]

\* A number n + micro / 10^6 (micro in 0..999999), or NaN.
NaN == [nan |-> TRUE, n |-> 0, micro |-> 0]
Decimal(n, micro) == [nan |-> FALSE, n |-> n, micro |-> micro]
Number(n) == Decimal(n, 0)

Digits == "0123456789"
IsDigit(c) == Contains(Digits, c)
DigitOf(c) == IndexOf(Digits, c, 1) - 1

\* Digits after the decimal point that a number keeps: a MHz is 10^6 Hz.
MicroDigits == 6

RECURSIVE DigitsEnd(_, _)
\* The index after the run of digits of s that starts at i.
DigitsEnd(s, i) ==
  IF i <= Len(s) /\ IsDigit(CharAt(s, i)) THEN DigitsEnd(s, i + 1) ELSE i

RECURSIVE DigitsValue(_, _, _, _)
\* The value of the digits of s from i to j - 1, given the value acc of the
\* digits before them.
DigitsValue(s, i, j, acc) ==
  IF i < j THEN DigitsValue(s, i + 1, j, 10 * acc + DigitOf(CharAt(s, i))) ELSE acc

RECURSIVE Power10(_)
Power10(k) == IF k = 0 THEN 1 ELSE 10 * Power10(k - 1)

\* parseFloat(value): the number a string starts with (a sign, digits, a point
\* and digits), NaN when it starts with none, and NaN for null.
parseFloat(v) ==
  LET s == v.text
      neg == Len(s) >= 1 /\ CharAt(s, 1) = "-"
      i == IF neg THEN 2 ELSE 1
      j == DigitsEnd(s, i)
      point == j <= Len(s) /\ CharAt(s, j) = "."
      k == IF point THEN Min(DigitsEnd(s, j + 1), j + 1 + MicroDigits) ELSE j
      whole == DigitsValue(s, i, j, 0)
      micro == IF point THEN DigitsValue(s, j + 1, k, 0) * Power10(MicroDigits - (k - j - 1)) ELSE 0
  IN IF v.null \/ (j = i /\ k <= j + 1) THEN NaN
     ELSE Decimal(IF neg THEN 0 - whole ELSE whole, micro)

(* ------------------------------------------------ contact records (/log) *)
\* The values of a parsed JSON body: a string, a number, or a missing property.
Str(s) == [t |-> "string", s |-> s, n |-> NaN]
Num(x) == [t |-> "number", s |-> "", n |-> x]
Undefined == [t |-> "undefined", s |-> "", n |-> NaN]

\* qso.field
Get(q, f) == IF f \in DOMAIN q THEN q[f] ELSE Undefined

\* The operand of "if (v)" and of "v || w".
Truthy(v) ==
  CASE v.t = "string" -> v.s # ""
    [] v.t = "number" -> ~v.n.nan /\ (v.n.n # 0 \/ v.n.micro # 0)
    [] OTHER -> FALSE
Or(v, w) == IF Truthy(v) THEN v ELSE w

RECURSIVE DropZeros(_)
\* The digits of a fraction without its trailing zeros.
DropZeros(s) == IF s # "" /\ CharAt(s, Len(s)) = "0" THEN DropZeros(SubSeq(s, 1, Len(s) - 1)) ELSE s

\* The k digits of n, with leading zeros.
Padded(n, k) ==
  LET t == ToString(n) IN SubSeq("000000", 1, k - Len(t)) \o t

\* String(x) of a number.
NumberText(x) ==
  IF x.nan THEN "NaN"
  ELSE IF x.micro = 0 THEN ToString(x.n)
  ELSE ToString(x.n) \o "." \o DropZeros(Padded(x.micro, MicroDigits))

\* `${v}` in a template literal.
Template(v) ==
  CASE v.t = "string" -> v.s
    [] v.t = "number" -> NumberText(v.n)
    [] OTHER -> "undefined"

\* v.length: the length of a string, undefined on a number; reading it from a
\* missing property throws a TypeError.
Throws(v) == v.t = "undefined"
Length(v) == IF v.t = "string" THEN Num(Number(Len(v.s))) ELSE Undefined

\* parseFloat(v) of a body value.
ParsedFloat(v) ==
  CASE v.t = "string" -> parseFloat(Text(v.s))
    [] v.t = "number" -> v.n
    [] OTHER -> NaN

(* ----------------------------------------------------------- ADIF records *)
\* What a builder returns: the text, or the TypeError it threw.
Built(text) == [by |-> "", threw |-> FALSE, text |-> text]
Thrown == [by |-> "", threw |-> TRUE, text |-> ""]
By(name, doc) == [doc EXCEPT !.by = name]

\* `<call:${qso.callsign.length}>${qso.callsign}`
Field(name, v) == "<" \o name \o ":" \o Template(Length(v)) \o ">" \o Template(v)

\* `<qso_date:8>${qso.qso_date}`, `<time_on:6>${qso.time_on}`: the length is written out.
DateField(name, len, v) == "<" \o name \o ":" \o ToString(len) \o ">" \o Template(v)

\* The lengths of YYYYMMDD and HHMMSS.
DateLength == 8
TimeLength == 6

\* "if (qso.my_sig && qso.my_sig_info) { ... }"
Pair(q, sig, info) ==
  IF Truthy(Get(q, sig)) /\ Truthy(Get(q, info))
  THEN Field(sig, Get(q, sig)) \o Field(info, Get(q, info)) ELSE ""

\* The fields whose length buildADIFString reads unconditionally.
MeasuredFields == {"callsign", "band", "mode", "frequency", "rst_sent", "rst_rcvd"}

\* RelayServer.buildADIFString(qso)
buildADIFString(q) ==
  IF \E f \in MeasuredFields : Throws(Get(q, f)) THEN Thrown
  ELSE Built(Field("call", Get(q, "callsign"))
             \o DateField("qso_date", DateLength, Get(q, "qso_date"))
             \o DateField("time_on", TimeLength, Get(q, "time_on"))
             \o Field("band", Get(q, "band"))
             \o Field("mode", Get(q, "mode"))
             \o Field("freq", Get(q, "frequency"))
             \o Field("rst_sent", Get(q, "rst_sent"))
             \o Field("rst_rcvd", Get(q, "rst_rcvd"))
             \o Pair(q, "my_sig", "my_sig_info")
             \o Pair(q, "sig", "sig_info")
             \o (IF Truthy(Get(q, "comment")) THEN Field("comment", Get(q, "comment")) ELSE "")
             \o "<eor>")

\* addField of buildADIFRecord: "if (value) adif += `<${name}:${value.length}>${value}`"
addField(name, v) == IF Truthy(v) THEN Field(name, v) ELSE ""

\* The clock of buildADIFRecord: toISOString().slice(0, 10) without dashes, and
\* the padded hours, minutes and seconds.
Clock == [dateStr |-> "20240115", timeStr |-> "143000"]

\* (parseFloat(frequency) / 1000).toFixed(6): kHz to MHz, six decimals (exact for
\* frequencies given to the Hz).
ToFixed6(x) ==
  IF x.nan THEN "NaN"
  ELSE ToString(x.n \div 1000) \o "." \o Padded((x.n % 1000) * 1000 + x.micro \div 1000, MicroDigits)

\* buildADIFRecord(qsoData) of relay.js
buildADIFRecord(q) ==
  Built(addField("CALL", Get(q, "callsign"))
        \o addField("QSO_DATE", Str(Clock.dateStr))
        \o addField("TIME_ON", Str(Clock.timeStr))
        \o addField("TIME_OFF", Str(Clock.timeStr))
        \o addField("FREQ", Str(ToFixed6(ParsedFloat(Get(q, "frequency")))))
        \o addField("MODE", Get(q, "mode"))
        \o addField("RST_SENT", Get(q, "rstSent"))
        \o addField("RST_RCVD", Get(q, "rstReceived"))
        \o (IF Truthy(Get(q, "myCallsign"))
            THEN addField("STATION_CALLSIGN", Get(q, "myCallsign"))
                 \o addField("OPERATOR", Get(q, "myCallsign"))
            ELSE "")
        \o (IF Truthy(Get(q, "parkReference"))
            THEN addField("SIG", Str("POTA")) \o addField("SIG_INFO", Get(q, "parkReference"))
            ELSE "")
        \o (IF Truthy(Get(q, "comment")) THEN addField("COMMENT", Get(q, "comment")) ELSE "")
        \o "<EOR>")

(* ------------------------------------------------------------ band lookup *)
\* x >= n + micro / 10^6 and x <= n + micro / 10^6; both are false of NaN.
AtLeast(x, n, micro) == ~x.nan /\ (x.n > n \/ (x.n = n /\ x.micro >= micro))
AtMost(x, n, micro) == ~x.nan /\ (x.n < n \/ (x.n = n /\ x.micro <= micro))

Band(name, lo, loMicro, hi, hiMicro) ==
  [name |-> name, lo |-> Decimal(lo, loMicro), hi |-> Decimal(hi, hiMicro)]
InBand(x, b) == AtLeast(x, b.lo.n, b.lo.micro) /\ AtMost(x, b.hi.n, b.hi.micro)

\* A lookup that takes every frequency above the lower edge of a band.
Lookup_openEnded(table, x, none) ==
  LET hits == {i \in 1..Len(table) : AtLeast(x, table[i].lo.n, table[i].lo.micro)}
  IN IF hits = {} THEN none ELSE table[CHOOSE i \in hits : \A j \in hits : i <= j].name

\* The first band of the table whose range holds x, else the value for no band.
Lookup(table, x, none) ==
  LET hits == {i \in 1..Len(table) : InBand(x, table[i])}
  IN IF hits = {} THEN none ELSE table[CHOOSE i \in hits : \A j \in hits : i <= j].name

\* The ranges of convertFreqToBand, in MHz.
N1mmBands ==
  <<Band("160m", 1, 800000, 2, 0), Band("80m", 3, 500000, 4, 0),
    Band("60m", 5, 300000, 5, 400000), Band("40m", 7, 0, 7, 300000),
    Band("30m", 10, 100000, 10, 150000), Band("20m", 14, 0, 14, 350000),
    Band("17m", 18, 68000, 18, 168000), Band("15m", 21, 0, 21, 450000),
    Band("12m", 24, 890000, 24, 990000), Band("10m", 28, 0, 29, 700000),
    Band("6m", 50, 0, 54, 0), Band("2m", 144, 0, 148, 0),
    Band("1.25m", 222, 0, 225, 0), Band("70cm", 420, 0, 450, 0)>>

\* The ranges of getBand, in kHz.
SpotBands ==
  <<Band("160m", 1800, 0, 2000, 0), Band("80m", 3500, 0, 4000, 0),
    Band("60m", 5330, 0, 5410, 0), Band("40m", 7000, 0, 7300, 0),
    Band("30m", 10100, 0, 10150, 0), Band("20m", 14000, 0, 14350, 0),
    Band("17m", 18068, 0, 18168, 0), Band("15m", 21000, 0, 21450, 0),
    Band("12m", 24890, 0, 24990, 0), Band("10m", 28000, 0, 29700, 0),
    Band("6m", 50000, 0, 54000, 0), Band("2m", 144000, 0, 148000, 0),
    Band("70cm", 420000, 0, 450000, 0)>>

\* A frequency in Hz, as whole MHz and the Hz beyond them.
Hz(mhz, hz) == [nan |-> FALSE, mhz |-> mhz, hz |-> hz]
NaNHz == [nan |-> TRUE, mhz |-> 0, hz |-> 0]

\* "parseFloat(qsoData.frequency) * 1000000": MHz to Hz.
TimesMillion(x) == IF x.nan THEN NaNHz ELSE Hz(x.n, x.micro)

\* "frequency / 1000000": Hz to MHz.
DivMillion(f) == IF f.nan THEN NaN ELSE Decimal(f.mhz, f.hz)

\* String(frequency) of a frequency in Hz.
HzText(f) ==
  IF f.nan THEN "NaN"
  ELSE IF f.mhz = 0 THEN ToString(f.hz)
  ELSE ToString(f.mhz) \o Padded(f.hz, MicroDigits)

\* N1MMLogger.convertFreqToBand(frequency), frequency in Hz
convertFreqToBand(frequency) == Lookup(N1mmBands, DivMillion(frequency), "OOB")

\* getBand(freq), freq a string in kHz: '' for no band and for no number
getBand(freq) == Lookup(SpotBands, ParsedFloat(freq), "")

\* x < n + micro / 10^6; false of NaN.
Below(x, n, micro) == ~x.nan /\ (x.n < n \/ (x.n = n /\ x.micro < micro))

\* The ranges of getBandFromFreq, in kHz; the upper edge is not part of a band.
ExportBands ==
  <<Band("160m", 1800, 0, 2000, 0), Band("80m", 3500, 0, 4000, 0),
    Band("40m", 7000, 0, 7300, 0), Band("30m", 10100, 0, 10150, 0),
    Band("20m", 14000, 0, 14350, 0), Band("17m", 18068, 0, 18168, 0),
    Band("15m", 21000, 0, 21450, 0), Band("12m", 24890, 0, 24990, 0),
    Band("10m", 28000, 0, 29700, 0), Band("6m", 50000, 0, 54000, 0),
    Band("2m", 144000, 0, 148000, 0)>>

\* exportToADIF: getBandFromFreq(freqKHz), freqKHz a string in kHz
getBandFromFreq(freqKHz) ==
  LET freq == ParsedFloat(freqKHz)
      hits == {i \in 1..Len(ExportBands) :
                 /\ AtLeast(freq, ExportBands[i].lo.n, ExportBands[i].lo.micro)
                 /\ Below(freq, ExportBands[i].hi.n, ExportBands[i].hi.micro)}
  IN IF hits = {} THEN "" ELSE ExportBands[CHOOSE i \in hits : \A j \in hits : i <= j].name

\* One frequency in the units of the three lookups: kHz to Hz, kHz to MHz and
\* MHz to kHz, for frequencies of whole Hz.
KHzToHz(x) == IF x.nan THEN NaNHz ELSE Hz(x.n \div 1000, (x.n % 1000) * 1000 + x.micro \div 1000)
KHzToMHz(x) == Decimal(x.n \div 1000, (x.n % 1000) * 1000 + x.micro \div 1000)
MHzToKHz(x) == Decimal(x.n * 1000 + x.micro \div 1000, (x.micro % 1000) * 1000)

(* ------------------------------------------------- the N1MM contact document *)
\* The own properties of modeMap.
ModeTable ==
  [m \in {"USB", "LSB", "FM", "AM", "CW", "RTTY", "PSK31", "FT8", "FT4"} |->
     CASE m \in {"USB", "LSB"} -> "SSB"
       [] m = "PSK31" -> "PSK"
       [] m \in {"FT8", "FT4"} -> "DIGI"
       [] OTHER -> m]

\* modeMap is an object literal: a key it does not own is looked up in
\* Object.prototype, whose members are functions (truthy).  Some of them:
ObjectPrototype == {"constructor", "toString", "valueOf", "hasOwnProperty"}
Inherited(key) == "function " \o (IF key = "constructor" THEN "Object" ELSE key)
                    \o "() { [native code] }"

\* modeMap[qso.mode]
ModeMapAt(mode) ==
  IF mode.t # "string" THEN Undefined
  ELSE IF mode.s \in DOMAIN ModeTable THEN Str(ModeTable[mode.s])
  ELSE IF mode.s \in ObjectPrototype THEN Str(Inherited(mode.s))
  ELSE Undefined

\* "const n1mmMode = modeMap[qso.mode] || qso.mode"
n1mmMode(mode) == Or(ModeMapAt(mode), mode)

\* A contact whose call is taken from the station's own callsign.
N1mmQSO_ownCall(qsoData) ==
  [myCall |-> Or(Get(qsoData, "my_call"), Str("")),
   theirCall |-> Get(qsoData, "my_call"),
   frequency |-> TimesMillion(ParsedFloat(Get(qsoData, "frequency"))),
   mode |-> Get(qsoData, "mode"),
   rstSent |-> Get(qsoData, "rst_sent"),
   rstReceived |-> Get(qsoData, "rst_rcvd"),
   park |-> Or(Get(qsoData, "sig_info"), Str("")),
   gridSquare |-> Or(Get(qsoData, "gridsquare"), Str("")),
   name |-> Or(Get(qsoData, "name"), Str("")),
   comment |-> Or(Get(qsoData, "comment"), Str("")),
   operator |-> Or(Get(qsoData, "operator"), Or(Get(qsoData, "my_call"), Str(""))),
   station |-> Or(Get(qsoData, "station_callsign"), Str(""))]

\* The N1MM contact of handleLogRequest.
N1mmQSO(qsoData) ==
  [myCall |-> Or(Get(qsoData, "my_call"), Str("")),
   theirCall |-> Get(qsoData, "callsign"),
   frequency |-> TimesMillion(ParsedFloat(Get(qsoData, "frequency"))),
   mode |-> Get(qsoData, "mode"),
   rstSent |-> Get(qsoData, "rst_sent"),
   rstReceived |-> Get(qsoData, "rst_rcvd"),
   park |-> Or(Get(qsoData, "sig_info"), Str("")),
   gridSquare |-> Or(Get(qsoData, "gridsquare"), Str("")),
   name |-> Or(Get(qsoData, "name"), Str("")),
   comment |-> Or(Get(qsoData, "comment"), Str("")),
   operator |-> Or(Get(qsoData, "operator"), Or(Get(qsoData, "my_call"), Str(""))),
   station |-> Or(Get(qsoData, "station_callsign"), Str(""))]

\* <name>text</name>
Element(name, text) == "<" \o name \o ">" \o text \o "</" \o name \o ">"

\* N1MMLogger.buildContactAddXML(qso): the elements filled from the contact (the
\* timestamp, the contact ids and the elements with fixed content are left out).
buildContactAddXML(c) ==
  "<contactreplace>"
  \o Element("mycall", Template(Or(c.myCall, Str(""))))
  \o Element("band", convertFreqToBand(c.frequency))
  \o Element("rxfreq", HzText(c.frequency))
  \o Element("txfreq", HzText(c.frequency))
  \o Element("operator", Template(Or(c.operator, Or(c.myCall, Str("")))))
  \o Element("mode", Template(n1mmMode(c.mode)))
  \o Element("call", Template(c.theirCall))
  \o Element("snt", Template(Or(c.rstSent, Str("59"))))
  \o Element("rcv", Template(Or(c.rstReceived, Str("59"))))
  \o Element("gridsquare", Template(Or(c.gridSquare, Str(""))))
  \o Element("exchange1", Template(Or(c.park, Str(""))))
  \o Element("comment", Template(Or(c.comment, Str(""))))
  \o Element("name", Template(Or(c.name, Str(""))))
  \o Element("StationName", Template(Or(c.station, Str("POTA"))))
  \o "</contactreplace>"

\* The text of the first element called name in xml.
ElementText(xml, name) ==
  LET open == "<" \o name \o ">"
      i == IndexOf(xml, open, 1)
      j == IndexOf(xml, "</" \o name \o ">", i + Len(open))
  IN SubSeq(xml, i + Len(open), j - 1)

\* A contact as the relay's /log expects it, and as the mobile client sends it.
RelayContact ==
  [callsign |-> Str("K1ABC"), qso_date |-> Str("20240115"), time_on |-> Str("143000"),
   band |-> Str("20m"), mode |-> Str("USB"), frequency |-> Str("14.1"),
   rst_sent |-> Str("59"), rst_rcvd |-> Str("57")]
MobileContact ==
  [callsign |-> Str("W1AW/P"), frequency |-> Str("7200"), mode |-> Str("FT8"),
   rstSent |-> Str("59"), rstReceived |-> Str("55"), comment |-> Str("tnx"),
   parkReference |-> Str("K-0001"), myCallsign |-> Str("N0CALL")]

(* ------------------------------------------------------- request handling *)
\* res.writeHead(200, ...); res.end(JSON.stringify({ success, message }))
Respond(rec, success, message) ==
  [rec EXCEPT !.st = "done",
              !.resp = [status |-> 200, success |-> success, message |-> message]]

\* OPTIONS: "res.writeHead(200); res.end()", a response without a body.
Empty(rec, status) == [rec EXCEPT !.st = "done", !.resp = [NoResp EXCEPT !.status = status]]

\* No route matches: 404 with { success: false, message: 'Endpoint not found' }.
NotFound(rec) == [Respond(rec, FALSE, "Endpoint not found") EXCEPT !.resp.status = 404]

\* One more entry in the record of what the request did on the network.
Contact(rec, ev, to, cmd) == [rec EXCEPT !.log = Append(@, [ev |-> ev, to |-> to, cmd |-> cmd])]

\* The awaited backend call was rejected, or the send callback got an error.
Failed(rec, to) == Contact(rec, "error", to, rec.cmd)

\* The request has met the error whose text is errMessage.
Threw(rec, errMessage) == [rec EXCEPT !.error = errMessage]

\* What a handler leaves behind: the request, whether errorCount is incremented,
\* and the client objects (testFLRIGConnection and the n1mm branch create them lazily).
Outcome(rec, err) ==
  [req |-> rec, err |-> err, flrigClient |-> flrigClient, n1mmLogger |-> n1mmLogger,
   loggers |-> loggers]

\* A catch block that counts the error and leaves the request unanswered.
Caught_unanswered(rec, errMessage) == Outcome([rec EXCEPT !.st = "dropped"], TRUE)

\* The catch blocks: "this.stats.errorCount++; ... message: `Error: ${err.message}`"
Caught(rec, errMessage) ==
  Outcome(Respond(Threw(rec, errMessage), FALSE, "Error: " \o errMessage), TRUE)

\* sendHRDCommand(command): a new socket, connect() issued, the response awaited.
sendHRDCommand(rec, cmd) ==
  [Contact(rec, "connect", "hrd", cmd) EXCEPT !.st = "connecting", !.cmd = cmd]

\* FLRIGClient.sendRequest(method): the HTTP POST is issued on client cl.
sendRequest(rec, cl, method) ==
  [Contact(rec, "post", "flrig", method) EXCEPT !.st = "rpc", !.cmd = method, !.client = cl]

\* The tuning commands with the mode set first.
hrdTuneCommands_modeFirst == <<"set mode", "set frequency-hz">>

\* The two commands of a tuning request, in the order the handler awaits them.
hrdTuneCommands == <<"set frequency-hz", "set mode">>
flrigTuneCommands == <<"rig.set_vfo", "rig.set_mode">>
flrigTestCommands == <<"rig.get_vfo", "rig.get_mode">>

TypeErrorNull == "Cannot read properties of null"
TypeErrorUndefined == "Cannot read properties of undefined"
JsonError == "Unexpected token in JSON"

\* new Error(message)
Error(message) == [message |-> message]

\* N1MMLogger.sendContact: "reject({ success: false, error: err.message })"
Rejection(err) == [success |-> FALSE, error |-> err.message]

\* `${err.message}` in a template literal: a property the object lacks reads as
\* undefined.
MessageOf(err) == IF "message" \in DOMAIN err THEN err.message ELSE "undefined"

\* handleTestRequest
handleTestRequest(rec) ==
  LET mode == config.radioControl
      req == [rec EXCEPT !.mode = mode, !.step = 1] IN
  CASE mode = "none" ->
         Outcome(Respond(req, TRUE, "Logging only mode - no radio control configured"), FALSE)
    [] mode = "hrd" ->
         Outcome(sendHRDCommand(req, "get frequency"), FALSE)
    [] mode = "flrig" ->
         \* testFLRIGConnection: "if (!this.flrigClient) this.flrigClient = new FLRIGClient(..)"
         LET cl == IF flrigClient = NullClient THEN FLRIGClient(config.flrigPort) ELSE flrigClient
         IN [Outcome(sendRequest(req, cl, flrigTestCommands[1]), FALSE) EXCEPT !.flrigClient = cl]

\* handleFrequencyRequest, from the 'end' of the body to the first await
handleFrequencyRequest(rec) ==
  LET mode == config.radioControl
      req == [rec EXCEPT !.mode = mode, !.step = 1] IN
  IF rec.body = "bad" THEN Caught(rec, JsonError)
  ELSE CASE mode = "none" ->
              Outcome(Respond(req, TRUE, "Logged (no radio control)"), FALSE)
         [] mode = "hrd" ->
              Outcome(sendHRDCommand(req, hrdTuneCommands[1]), FALSE)
         [] mode = "flrig" ->
              IF flrigClient = NullClient THEN Caught(req, TypeErrorNull)
              ELSE Outcome(sendRequest(req, flrigClient, flrigTuneCommands[1]), FALSE)

\* A 'none' branch that hands the QSO to the HRD logbook all the same.
loggingDisabled_sends(req) ==
  Outcome([Contact(req, "datagram", "hrdlog", "adif") EXCEPT !.st = "udp", !.cmd = "adif"], FALSE)

\* "if (this.config.loggingMode === 'none')": answered at once, nothing sent.
loggingDisabled(req) == Outcome(Respond(req, TRUE, "Logging disabled"), FALSE)

\* "const qsoData = JSON.parse(body)" of the two well-formed bodies.
qsoData(body) == IF body = "mobile" THEN MobileContact ELSE RelayContact

\* handleLogRequest, from the 'end' of the body to the UDP send
handleLogRequest(rec) ==
  LET mode == config.loggingMode
      req == [rec EXCEPT !.mode = mode, !.step = 1] IN
  IF rec.body = "bad" THEN Caught(rec, JsonError)
  ELSE CASE mode = "none" -> loggingDisabled(req)
         [] mode = "hrd" ->
              \* buildADIFString reads qso.band.length: a body without band throws
              LET adifString == buildADIFString(qsoData(rec.body)) IN
              IF adifString.threw THEN Caught(req, TypeErrorUndefined)
              ELSE Outcome([Contact(req, "datagram", "hrdlog", "adif")
                              EXCEPT !.st = "udp", !.cmd = "adif", !.datagram = adifString.text],
                           FALSE)
         [] mode = "n1mm" ->
              \* "if (!this.n1mmLogger) this.n1mmLogger = new N1MMLogger(...)"
              LET fresh == n1mmLogger = Null
                  ls == IF fresh THEN Append(loggers, N1MMLogger(config.n1mmPort)) ELSE loggers
                  lg == IF fresh THEN Len(loggers) + 1 ELSE n1mmLogger
              IN IF ls[lg].open
                 THEN [Outcome([Contact(req, "datagram", "n1mm", "contactreplace")
                                  EXCEPT !.st = "udp", !.cmd = "contactreplace", !.logger = lg,
                                         !.datagram =
                                           buildContactAddXML(N1mmQSO(qsoData(rec.body)))],
                                FALSE)
                         EXCEPT !.n1mmLogger = lg, !.loggers = ls]
                 ELSE \* dgram send on a closed socket throws; sendContact rejects
                      [Outcome(Respond(Threw(Failed(req, "n1mm"), "Not running"), FALSE,
                                       "N1MM error: " \o MessageOf(Rejection(Error("Not running")))),
                               TRUE)
                         EXCEPT !.n1mmLogger = lg, !.loggers = ls]

\* The routes that reach a backend, and all routes.
BackendKinds == {"test", "frequency", "log"}
RequestKinds == BackendKinds \cup {"status"}
Bodies(kind) == CASE kind = "frequency" -> {"ok", "bad"}
                  [] kind = "log" -> {"ok", "mobile", "bad"}
                  [] OTHER -> {"none"}

\* Every request: the four routes, an OPTIONS request, and anything else.
Routes == RequestKinds \cup {"options", "other"}

\* The route table of handleRequest.
route(rec) ==
  CASE rec.kind = "options" -> Outcome(Empty(rec, 200), FALSE)
    [] rec.kind = "other" -> Outcome(NotFound(rec), FALSE)
    [] rec.kind = "test" -> handleTestRequest(rec)
    [] rec.kind = "frequency" -> handleFrequencyRequest(rec)
    [] rec.kind = "log" -> handleLogRequest(rec)
    [] rec.kind = "status" -> Outcome(Respond(rec, TRUE, "status"), FALSE)

\* Publish a handler's outcome.
Settle(r, oc, st) ==
  /\ reqs' = [reqs EXCEPT ![r] = oc.req]
  /\ stats' = IF oc.err THEN [st EXCEPT !.errorCount = @ + 1] ELSE st
  /\ flrigClient' = oc.flrigClient
  /\ n1mmLogger' = oc.n1mmLogger
  /\ loggers' = oc.loggers

\* handleRequest: a request arrives on a connection accepted by listening server
\* s, while fewer than inFlight requests are being handled.
receiveRequest(kinds, budget, inFlight) ==
  /\ UNCHANGED <<wire, others, rig, store>>
  /\ Idle
  /\ nReqs < budget
  /\ Cardinality(InFlight) < inFlight
  /\ \E r \in ReqIds, s \in CallIds, kind \in kinds :
       /\ r = nReqs + 1
       /\ nReqs' = r
       /\ servers[s].st = "listening"
       /\ \E body \in Bodies(kind) :
            Settle(r, route([NoReq EXCEPT !.kind = kind, !.body = body, !.srv = s, !.conn = "open"]),
                   [stats EXCEPT !.requestCount = @ + 1, !.lastRequest = r])
  /\ out' = Quiet
  /\ UNCHANGED <<config, httpServer, isRunning, servers, nCalls, tickQ, microQ, inMicro,
                 foreign>>

handleRequest(kinds, budget) == receiveRequest(kinds, budget, MaxInFlight)

(* ------------------------------------------------- backend events (HRD TCP) *)
Pending(st) == {r \in ReqIds : reqs[r].st = st}

\* Everything a backend event leaves alone.
backendFrame == <<config, httpServer, isRunning, servers, nCalls, tickQ, microQ, inMicro,
                  foreign, nReqs>>

\* What the handler does once an awaited command has resolved.
afterHRDCommand(rec) ==
  LET got == Contact(rec, "reply", "hrd", rec.cmd) IN
  IF rec.kind = "frequency" /\ rec.step < Len(hrdTuneCommands)
  THEN Outcome(sendHRDCommand([got EXCEPT !.step = rec.step + 1], hrdTuneCommands[rec.step + 1]),
               FALSE)
  ELSE Outcome(Respond(got, TRUE, IF rec.kind = "test" THEN "HRD connected" ELSE "Tuned"), FALSE)

\* A handler that carries on with the next command after a rejected one.
hrdFailed_carriesOn(r, errMessage) == Settle(r, afterHRDCommand(Failed(reqs[r], "hrd")), stats)

\* sendHRDCommand rejected: the await throws into the handler's catch block.
hrdFailed(r, errMessage) == Settle(r, Caught(Failed(reqs[r], "hrd"), errMessage), stats)

\* The radio once request r has written the frame of cmd: HRD carries out the
\* commands in the order they are written.
Written(r, cmd) ==
  [rig EXCEPT !.frames = Append(@, [req |-> r, cmd |-> cmd]),
              !.frequency = IF cmd = "set frequency-hz" THEN r ELSE @,
              !.mode = IF cmd = "set mode" THEN r ELSE @]

\* The connect callback of sendHRDCommand: "socket.write(frame)".
hrdConnected ==
  /\ UNCHANGED <<wire, others, store>>
  /\ Idle
  /\ \E r \in Pending("connecting") :
       /\ Settle(r, Outcome([Contact(reqs[r], "frame", "hrd", reqs[r].cmd) EXCEPT !.st = "waiting"],
                            FALSE), stats)
       /\ rig' = IF rig.followed THEN Written(r, reqs[r].cmd) ELSE rig
  /\ out' = Quiet
  /\ UNCHANGED backendFrame

\* The socket's 'error' event (connection refused): both error listeners reject.
hrdRefused ==
  /\ UNCHANGED <<wire, others, rig, store>>
  /\ Idle
  /\ \E r \in Pending("connecting") : hrdFailed(r, "connect ECONNREFUSED")
  /\ out' = Quiet
  /\ UNCHANGED backendFrame

\* A timer that is armed in the connect callback only.
HrdTimed_onceConnected == Pending("waiting")

\* The requests whose readHRDResponse timer is armed: it runs from the call,
\* connected or not.
HrdTimed == Pending("connecting") \cup Pending("waiting")

\* onTimeout of readHRDResponse
hrdTimeout ==
  /\ UNCHANGED <<wire, others, rig, store>>
  /\ Idle
  /\ \E r \in HrdTimed : hrdFailed(r, "HRD response timeout")
  /\ out' = Quiet
  /\ UNCHANGED backendFrame

\* A complete frame has arrived: readHRDResponse resolves, parseHRDResponse
\* accepts it (good) or reports a magic mismatch.
hrdResponse ==
  /\ UNCHANGED <<wire, others, rig, store>>
  /\ Idle
  /\ \E r \in Pending("waiting"), good \in BOOLEAN :
       IF good THEN Settle(r, afterHRDCommand(reqs[r]), stats)
       ELSE Settle(r, Caught(Failed(Contact(reqs[r], "reply", "hrd", reqs[r].cmd), "hrd"),
                             "Magic mismatch"), stats)
  /\ out' = Quiet
  /\ UNCHANGED backendFrame

(* --------------------------------------------- backend events (FLRIG, UDP) *)
\* What the handler does once an awaited XML-RPC call has resolved.
\* /frequency calls "this.flrigClient.setMode" on whatever the field holds now;
\* test() keeps calling the client object it was invoked on.
afterFlrigCall(rec) ==
  LET got == Contact(rec, "reply", "flrig", rec.cmd) IN
  IF rec.step >= 2
  THEN Outcome(Respond(got, TRUE, IF rec.kind = "test" THEN "FLRIG connected" ELSE "Tuned"), FALSE)
  ELSE IF rec.kind = "test"
  THEN Outcome(sendRequest([got EXCEPT !.step = 2], rec.client, flrigTestCommands[2]), FALSE)
  ELSE IF flrigClient = NullClient THEN Caught(got, TypeErrorNull)
  ELSE Outcome(sendRequest([got EXCEPT !.step = 2], flrigClient, flrigTuneCommands[2]), FALSE)

FlrigErrors == {"FLRIG connection error: connect ECONNREFUSED", "FLRIG connection timeout"}

\* The HTTP response of an XML-RPC call has ended.
flrigResponse ==
  /\ UNCHANGED <<wire, others, rig, store>>
  /\ Idle
  /\ \E r \in Pending("rpc") : Settle(r, afterFlrigCall(reqs[r]), stats)
  /\ out' = Quiet
  /\ UNCHANGED backendFrame

\* req.on('error') or the 5000 ms timeout: sendRequest rejects.
flrigFailed ==
  /\ UNCHANGED <<wire, others, rig, store>>
  /\ Idle
  /\ \E r \in Pending("rpc"), e \in FlrigErrors : Settle(r, Caught(Failed(reqs[r], "flrig"), e), stats)
  /\ out' = Quiet
  /\ UNCHANGED backendFrame

\* The message of a failed UDP send.  HRD logbook: `HRD UDP error: ${err.message}`.
\* N1MM: sendContact rejects with a plain object { success, error }, whose
\* .message is undefined: `N1MM error: ${err.message}`.
udpErrorMessage(rec, errMessage) ==
  IF rec.mode = "hrd" THEN "HRD UDP error: " \o MessageOf(Error(errMessage))
  ELSE "N1MM error: " \o MessageOf(Rejection(Error(errMessage)))

\* An error branch that answers without counting the error.
udpFailed_uncounted(rec) ==
  Outcome(Respond(Threw(Failed(rec, rec.log[Len(rec.log)].to), "send EHOSTUNREACH"), FALSE,
                  udpErrorMessage(rec, "send EHOSTUNREACH")),
          FALSE)

\* The error branches of the two send callbacks.
udpFailed(rec) ==
  Outcome(Respond(Threw(Failed(rec, rec.log[Len(rec.log)].to), "send EHOSTUNREACH"), FALSE,
                  udpErrorMessage(rec, "send EHOSTUNREACH")),
          TRUE)

\* The callback of the UDP send of /log.
udpSent ==
  /\ UNCHANGED <<wire, others, rig, store>>
  /\ Idle
  /\ \E r \in Pending("udp"), err \in BOOLEAN :
       Settle(r, IF err THEN udpFailed(reqs[r]) ELSE Outcome(Respond(reqs[r], TRUE, "QSO logged"), FALSE),
              stats)
  /\ out' = Quiet
  /\ UNCHANGED backendFrame

\* The client's connection ends after the response.  The last connection of a
\* closing server lets it emit 'close' on the next tick.
connectionClosed ==
  /\ UNCHANGED <<wire, others, rig, store>>
  /\ Idle
  /\ \E r \in Pending("done") :
       /\ reqs[r].conn = "open"
       /\ reqs' = [reqs EXCEPT ![r] = NoReq]
       /\ tickQ' = IF servers[reqs[r].srv].st = "closing" /\ OpenConns(reqs[r].srv) = {r}
                   THEN Append(tickQ, [t |-> "close", s |-> reqs[r].srv, op |-> "stop"])
                   ELSE tickQ
  /\ out' = Quiet
  /\ UNCHANGED <<config, httpServer, isRunning, flrigClient, n1mmLogger, stats, servers,
                 loggers, nCalls, microQ, inMicro, foreign, nReqs>>

(* ------------------------------------------------------ the HRD frame codec *)
\* An unsigned 32-bit number as its two 16-bit halves.
UInt32(hi, lo) == [hi |-> hi, lo |-> lo]
ToUInt32(n) == UInt32(n \div 65536, n % 65536)

\* 0x1234ABCD and 0xABCD1234
MAGIC1 == UInt32(4660, 43981)
MAGIC2 == UInt32(43981, 4660)
\* The header: size, magic1, magic2, checksum, four bytes each.
HeaderSize == 16

\* "[0] "
ContextPrefix == <<91, 48, 93, 32>>
NUL == 0

\* header.writeUInt32LE(value, offset): the four bytes, least significant first.
WriteUInt32LE(value) ==
  <<value.lo % 256, value.lo \div 256, value.hi % 256, value.hi \div 256>>

\* buffer.readUInt32LE(offset)
ReadUInt32LE(buf, offset) ==
  UInt32(buf[offset + 3] + 256 * buf[offset + 4], buf[offset + 1] + 256 * buf[offset + 2])

\* An encoder that writes the high byte of every code unit first.
Utf16le_bigEndian(text) ==
  [i \in 1..(2 * Len(text)) |-> IF i % 2 = 1 THEN text[(i + 1) \div 2] \div 256
                                ELSE text[i \div 2] % 256]

\* Buffer.from(text, 'utf16le'): two bytes per code unit, low byte first.
Utf16le(text) ==
  [i \in 1..(2 * Len(text)) |-> IF i % 2 = 1 THEN text[(i + 1) \div 2] % 256
                                ELSE text[i \div 2] \div 256]

\* payload.toString('utf16le'): one code unit per complete pair of bytes.
ToStringUtf16le(bytes) ==
  [i \in 1..(Len(bytes) \div 2) |-> bytes[2 * i - 1] + 256 * bytes[2 * i]]

\* A size field that counts the payload alone.
FrameSize_payloadOnly(payload) == Len(payload)

\* "const size = 16 + payload.length"
FrameSize(payload) == HeaderSize + Len(payload)

\* buildHRDFrame(command, prependContext)
buildHRDFrame(cmd, prepend) ==
  LET payloadText == (IF prepend THEN ContextPrefix \o cmd ELSE cmd) \o <<NUL>>
      payload == Utf16le(payloadText)
      size == FrameSize(payload)
      header == WriteUInt32LE(ToUInt32(size)) \o WriteUInt32LE(MAGIC1)
                  \o WriteUInt32LE(MAGIC2) \o WriteUInt32LE(ToUInt32(0))
  IN header \o payload

\* "buffer.length < size", size an unsigned 32-bit number
LengthBelow(n, size) == size.hi > 0 \/ n < size.lo

\* A slice that runs to the end of the buffer whatever the size field says.
Slice_toTheEnd(buf, from, size) == SubSeq(buf, from + 1, Len(buf))

\* buffer.slice(from, size): the bytes from offset from up to offset size,
\* no further than the buffer reaches; empty when size <= from.
Slice(buf, from, size) ==
  SubSeq(buf, from + 1, IF size.hi > 0 THEN Len(buf) ELSE Min(size.lo, Len(buf)))

\* text.indexOf('\x00'), -1 when there is none
IndexOfNul(text) ==
  IF \E i \in 1..Len(text) : text[i] = NUL
  THEN (CHOOSE i \in 1..Len(text) : text[i] = NUL /\ \A j \in 1..(i - 1) : text[j] # NUL) - 1
  ELSE -1

\* A magic check that looks at the first constant only.
MagicMismatch_firstOnly(magic1, magic2) == magic1 # MAGIC1

\* "(magic1 >>> 0) !== (MAGIC1 >>> 0) || (magic2 >>> 0) !== (MAGIC2 >>> 0)"
MagicMismatch(magic1, magic2) == magic1 # MAGIC1 \/ magic2 # MAGIC2

\* { error, data: null } and { error: null, data }
NullError == "null"
Rejected(error) == [error |-> error, data |-> <<>>]

\* parseHRDResponse(buffer)
parseHRDResponse(buf) ==
  IF Len(buf) < HeaderSize THEN Rejected("Response too short")
  ELSE LET size == ReadUInt32LE(buf, 0)
           magic1 == ReadUInt32LE(buf, 4)
           magic2 == ReadUInt32LE(buf, 8)
       IN IF MagicMismatch(magic1, magic2) THEN Rejected("Magic mismatch")
          ELSE IF LengthBelow(Len(buf), size) THEN Rejected("Incomplete response")
          ELSE LET text == ToStringUtf16le(Slice(buf, HeaderSize, size))
                   nulIndex == IndexOfNul(text)
               IN [error |-> NullError,
                   data |-> IF nulIndex >= 0 THEN SubSeq(text, 1, nulIndex) ELSE text]

\* The command texts: NUL, 'A', U+0100 (low byte zero), U+0141 (both bytes set).
CodeUnits == {NUL, 65, 256, 321}
Commands == UNION {[1..n -> CodeUnits] : n \in 0..MaxCommandLen}

\* What may reach the parser in place of frame f: any size field, either magic
\* constant right or wrong, bytes after the frame, and any truncation of that.
DeclaredSizes(f) ==
  {ToUInt32(n) : n \in {0, HeaderSize - 1, HeaderSize, HeaderSize + 1, Len(f) - 1, Len(f),
                        Len(f) + 1}} \cup {UInt32(1, 0)}
MagicPairs ==
  {<<MAGIC1, MAGIC2>>, <<MAGIC2, MAGIC2>>, <<MAGIC1, MAGIC1>>, <<MAGIC2, MAGIC1>>,
   <<UInt32(MAGIC1.hi, MAGIC1.lo - 1), MAGIC2>>}
Trailers == {<<>>, <<66, 0>>}
Damaged(f) ==
  {WriteUInt32LE(size) \o WriteUInt32LE(m[1]) \o WriteUInt32LE(m[2])
     \o SubSeq(f, 13, Len(f)) \o trailer :
       size \in DeclaredSizes(f), m \in MagicPairs, trailer \in Trailers}
Received(f) == UNION {{SubSeq(d, 1, n) : n \in 0..Len(d)} : d \in Damaged(f)}

\* A command text is chosen and nothing is encoded yet.
InitCodec ==
  /\ Constructed
  /\ config.radioControl = "hrd"
  /\ config.loggingMode = "none"
  /\ command \in Commands
  /\ prependContext \in BOOLEAN
  /\ frame = <<>>
  /\ buffer = <<>>
  /\ parsed = NotParsed
  /\ pc = "command"
  /\ NoSocket
  /\ NothingElse
  /\ rig = NotFollowed /\ store = Saved(config)

\* const frame = this.buildHRDFrame(command, prependContext)
buildFrame ==
  /\ pc = "command"
  /\ frame' = buildHRDFrame(command, prependContext)
  /\ pc' = "built"
  /\ UNCHANGED <<relay, rig, store, others, reader, command, prependContext, buffer, parsed>>

\* Some bytes come back.
receive ==
  /\ pc = "built"
  /\ buffer' \in Received(frame)
  /\ pc' = "received"
  /\ UNCHANGED <<relay, rig, store, others, reader, command, prependContext, frame, parsed>>

\* const result = this.parseHRDResponse(responseBuffer)
parseFrame ==
  /\ pc = "received"
  /\ parsed' = parseHRDResponse(buffer)
  /\ pc' = "parsed"
  /\ UNCHANGED <<relay, rig, store, others, reader, command, prependContext, frame, buffer>>

(* ----------------------------------- readHRDResponse and sendHRDCommand *)
\* The socket of the call in progress is the last one created.
Current == Len(sockets)
SocketState == sockets[Current].st

\* A completeness test that looks at the header alone.
Complete_headerOnly(buf) == Len(buf) >= HeaderSize

\* "buffer.length >= 16" and "buffer.length >= expectedSize"
Complete(buf) == Len(buf) >= HeaderSize /\ ~LengthBelow(Len(buf), ReadUInt32LE(buf, 0))

\* An onData that keeps the last chunk only.
Concat_lastChunk(buf, data) == data

\* "buffer = Buffer.concat([buffer, data])"
Concat(buf, data) == buf \o data

\* What the promise of readHRDResponse becomes once buf is buffered:
\* "resolve(buffer.slice(0, expectedSize))" when the frame is complete.
Buffered(buf) ==
  IF Complete(buf) THEN Resolve(Slice(buf, 0, ReadUInt32LE(buf, 0))) ELSE PendingPromise

\* A timeout that hands back what has been buffered.
TimedOut_returnsBuffer(buf) == Resolve(buf)

\* onTimeout: "reject(new Error('HRD response timeout'))" ('Read timeout' in relay.js)
TimedOut(buf) == Reject("HRD response timeout")

\* A socket.end() that leaves the socket as it is.
End_keepsOpen(st) == st

\* socket.end(): the writable side of an open socket is closed.
End(st) == IF st = "open" THEN "ended" ELSE st

\* The promise of readHRDResponse becomes resp, the timer timer, and the socket
\* (after the event that caused it) is in state st.  When a sendHRDCommand is
\* waiting, its reaction runs before anything else: .then ends the socket and
\* parses the frame, .catch destroys the socket and rejects.
settleResponse(resp, timer, st) ==
  /\ response' = resp
  /\ timeoutHandle' = timer
  /\ IF result.state = "pending" /\ resp.state = "resolved"
     THEN /\ sockets' = [sockets EXCEPT ![Current].st = End(st)]
          /\ parsed' = parseHRDResponse(resp.value)
          /\ result' = IF parsed'.error # NullError THEN Reject(parsed'.error)
                       ELSE Resolve(parsed'.data)
     ELSE IF result.state = "pending" /\ resp.state = "rejected"
     THEN /\ sockets' = [sockets EXCEPT ![Current].st = "destroyed"]
          /\ result' = Reject(resp.error)
          /\ UNCHANGED parsed
     ELSE /\ sockets' = [sockets EXCEPT ![Current].st = st]
          /\ UNCHANGED <<parsed, result>>

\* Two command texts the relay sends: "A" and a text of two wide code units.
SentCommands == {<<65>>, <<256, 321>>}

\* sendHRDCommand(command, prependContext): a new socket, connect() issued,
\* readHRDResponse called (listeners registered, timer armed).
sendCommand ==
  /\ result.state # "pending"
  /\ Len(sockets) < MaxCommands
  /\ command' \in SentCommands
  /\ prependContext' \in BOOLEAN
  /\ sockets' = Append(sockets, [st |-> "connecting", frames |-> 0])
  /\ frame' = <<>>
  /\ buffer' = <<>>
  /\ parsed' = NotParsed
  /\ stream' = <<>>
  /\ incoming' = <<>>
  /\ reads' = 0
  /\ timeoutHandle' = "armed"
  /\ response' = PendingPromise
  /\ result' = PendingPromise
  /\ pc' = "call"
  /\ UNCHANGED <<relay, rig, store, others, closeListener>>

\* The connect callback: "const frame = this.buildHRDFrame(...); socket.write(frame)".
onConnect ==
  /\ sockets # <<>>
  /\ SocketState = "connecting"
  /\ frame' = buildHRDFrame(command, prependContext)
  /\ sockets' = [sockets EXCEPT ![Current].st = "open", ![Current].frames = @ + 1]
  /\ UNCHANGED <<relay, rig, store, others, command, prependContext, buffer, parsed, pc, stream, incoming, reads,
                 timeoutHandle, response, result, closeListener>>

\* What HRD may answer to frame f: the frame with its size field one short of
\* the header, right, or one too long, and with magic2 right or wrong.
Replies(f) ==
  {WriteUInt32LE(ToUInt32(size)) \o WriteUInt32LE(MAGIC1) \o WriteUInt32LE(magic2)
     \o SubSeq(f, 13, Len(f)) :
       size \in {HeaderSize - 1, Len(f), Len(f) + 1}, magic2 \in {MAGIC2, MAGIC1}}

\* HRD sends its answer.
hrdReplies ==
  /\ sockets # <<>>
  /\ SocketState = "open"
  /\ result.state = "pending"
  /\ stream = <<>>
  /\ stream' \in Replies(frame)
  /\ incoming' = stream'
  /\ UNCHANGED <<relay, rig, store, others, codec, sockets, reads, timeoutHandle, response, result, closeListener>>

\* onData: a chunk of the stream arrives, in at most MaxReads chunks.
onData ==
  /\ sockets # <<>>
  /\ SocketState = "open"
  /\ response.state = "pending"
  /\ \E n \in 1..Len(incoming) :
       /\ reads + 1 < MaxReads \/ n = Len(incoming)
       /\ buffer' = Concat(buffer, SubSeq(incoming, 1, n))
       /\ incoming' = SubSeq(incoming, n + 1, Len(incoming))
  /\ reads' = reads + 1
  /\ IF Buffered(buffer').state = "resolved"
     THEN settleResponse(Buffered(buffer'), IF timeoutHandle = "armed" THEN "cleared" ELSE timeoutHandle,
                         SocketState)
     ELSE UNCHANGED <<response, timeoutHandle, sockets, parsed, result>>
  /\ UNCHANGED <<relay, rig, store, others, command, prependContext, frame, pc, stream, closeListener>>

\* onTimeout: the timer set by readHRDResponse fires.
onTimeout ==
  /\ timeoutHandle = "armed"
  /\ settleResponse(TimedOut(buffer), "fired", SocketState)
  /\ UNCHANGED <<relay, rig, store, others, command, prependContext, frame, buffer, pc, stream, incoming, reads,
                 closeListener>>

\* The connection closes without an error (the peer ends it); what was not
\* delivered never arrives.  relay.js: onClose rejects unless the frame is
\* complete.  relay-server.js has no 'close' listener.
socketClosed ==
  /\ sockets # <<>>
  /\ SocketState = "open"
  /\ incoming' = <<>>
  /\ IF closeListener /\ response.state = "pending"
     THEN settleResponse(IF Complete(buffer) THEN Buffered(buffer)
                         ELSE Reject("Connection closed before receiving all data"),
                         IF timeoutHandle = "armed" THEN "cleared" ELSE timeoutHandle, "closed")
     ELSE /\ sockets' = [sockets EXCEPT ![Current].st = "closed"]
          /\ UNCHANGED <<response, timeoutHandle, parsed, result>>
  /\ UNCHANGED <<relay, rig, store, others, command, prependContext, frame, buffer, pc, stream, reads,
                 closeListener>>

\* The socket's 'error' event (connection refused, connection reset): onError
\* rejects, and so does the error listener of sendHRDCommand; Node destroys the
\* socket.
socketError ==
  /\ sockets # <<>>
  /\ SocketState \in {"connecting", "open"}
  /\ LET err == IF SocketState = "connecting" THEN "connect ECONNREFUSED" ELSE "read ECONNRESET"
     IN IF response.state = "pending"
        THEN settleResponse(Reject(err), IF timeoutHandle = "armed" THEN "cleared" ELSE timeoutHandle,
                            "destroyed")
        ELSE /\ sockets' = [sockets EXCEPT ![Current].st = "destroyed"]
             /\ UNCHANGED <<response, timeoutHandle, parsed, result>>
  /\ UNCHANGED <<relay, rig, store, others, command, prependContext, frame, buffer, pc, stream, incoming, reads,
                 closeListener>>

\* The streams a reader may be given: a frame with any size field, with or
\* without bytes after it.
Sent(f) ==
  {WriteUInt32LE(size) \o SubSeq(f, 5, Len(f)) \o trailer :
     size \in DeclaredSizes(f), trailer \in Trailers}
Streams == UNION {Sent(buildHRDFrame(text, FALSE)) : text \in Commands}

\* readHRDResponse(socket) has just been called on a connected socket.
InitRead ==
  /\ Constructed
  /\ config.radioControl = "hrd"
  /\ config.loggingMode = "none"
  /\ command = <<>>
  /\ prependContext = FALSE
  /\ frame = <<>>
  /\ buffer = <<>>
  /\ parsed = NotParsed
  /\ pc = "idle"
  /\ sockets = <<[st |-> "open", frames |-> 1]>>
  /\ stream \in Streams
  /\ incoming = stream
  /\ reads = 0
  /\ timeoutHandle = "armed"
  /\ response = PendingPromise
  /\ result = NoPromise
  /\ closeListener \in BOOLEAN
  /\ NothingElse
  /\ rig = NotFollowed /\ store = Saved(config)

\* No command has been sent yet.
InitCommand ==
  /\ Constructed
  /\ config.radioControl = "hrd"
  /\ config.loggingMode = "none"
  /\ NoCommand
  /\ NothingElse
  /\ rig = NotFollowed /\ store = Saved(config)

(* ------------------------------------------------- the FLRIG XML-RPC client *)
ValueTag == "<value>"

\* "(?:<[^>]+>)?": where the captured text starts when the pattern is tried at an
\* occurrence i of "<value>"; 0 when the type tag is not closed.
CaptureStart(xml, i) ==
  LET a == i + Len(ValueTag)
      gt == IndexOf(xml, ">", a + 1)
  IN IF a <= Len(xml) /\ CharAt(xml, a) = "<"
     THEN IF gt >= a + 2 THEN gt + 1 ELSE 0
     ELSE a

\* "([^<]+)": at least one character that is not "<".
Captures(xml, i) ==
  LET b == CaptureStart(xml, i)
  IN b # 0 /\ b <= Len(xml) /\ CharAt(xml, b) # "<"

\* The text from b up to the next "<".
Captured(xml, b) ==
  LET lt == IndexOf(xml, "<", b)
  IN SubSeq(xml, b, IF lt = 0 THEN Len(xml) ELSE lt - 1)

\* parseXMLRPC: xml.match(/<value>(?:<[^>]+>)?([^<]+)/), the leftmost match.
parseXMLRPC(xml) ==
  LET hits == {i \in 1..(Len(xml) - Len(ValueTag) + 1) :
                 SubSeq(xml, i, i + Len(ValueTag) - 1) = ValueTag /\ Captures(xml, i)}
      first == CHOOSE i \in hits : \A j \in hits : i <= j
  IN IF hits = {} THEN NullValue ELSE Text(Captured(xml, CaptureStart(xml, first)))

RpcMethods == <<"rig.get_vfo", "rig.get_mode">>

\* Bodies FLRIG can answer with: a value, a typed value, a fault, the same fault
\* on several lines, a struct, an array, no value, an empty value.
ScalarResponses ==
  {"<methodResponse><params><param><value>14074000</value></param></params></methodResponse>",
   "<methodResponse><params><param><value><string>USB</string></value></param></params></methodResponse>"}
FaultResponses ==
  {"<methodResponse><fault><value><struct><member><name>faultCode</name><value><int>-1</int></value></member><member><name>faultString</name><value><string>unknown method</string></value></member></struct></value></fault></methodResponse>",
   "<methodResponse><fault><value> <struct><member><name>faultCode</name><value><int>-1</int></value></member></struct></value></fault></methodResponse>"}
StructResponses ==
  {"<methodResponse><params><param><value><struct><member><name>vfo</name><value><int>7</int></value></member></struct></value></param></params></methodResponse>"}
ArrayResponses ==
  {"<methodResponse><params><param><value><array><data><value><string>LSB</string></value><value><string>USB</string></value></data></array></value></param></params></methodResponse>"}
EmptyResponses ==
  {"<methodResponse><params></params></methodResponse>",
   "<methodResponse><params><param><value></value></param></params></methodResponse>"}
XmlResponses ==
  ScalarResponses \cup FaultResponses \cup StructResponses \cup ArrayResponses \cup EmptyResponses

\* FLRIG is about to be asked.
InitRpc ==
  /\ Constructed
  /\ config.radioControl = "flrig"
  /\ config.loggingMode = "none"
  /\ NoCommand
  /\ rpcData \in [1..Len(RpcMethods) -> XmlResponses]
  /\ rpcCall = NoRpcCall
  /\ NoContact
  /\ NoMobile
  /\ rig = NotFollowed /\ store = Saved(config)

\* test(): getFrequency() sends rig.get_vfo.
test ==
  /\ rpcCall.pc = "idle"
  /\ rpcCall' = [rpcCall EXCEPT !.pc = RpcMethods[1], !.promise = PendingPromise]
  /\ UNCHANGED <<relay, rig, store, wire, contact, mobile, rpcData>>

\* res.on('end') of sendRequest: "resolve(this.parseXMLRPC(data))"; then
\* getFrequency returns parseFloat of it and getMode is sent, or getMode returns
\* it and test() resolves with success: true.
resOnEnd ==
  /\ rpcCall.pc \in {RpcMethods[1], RpcMethods[2]}
  /\ LET k == IF rpcCall.pc = RpcMethods[1] THEN 1 ELSE 2
         value == parseXMLRPC(rpcData[k])
         got == Append(rpcCall.got, value)
     IN IF k = 1
        THEN rpcCall' = [rpcCall EXCEPT !.pc = RpcMethods[2], !.got = got,
                                        !.freq = parseFloat(value)]
        ELSE rpcCall' = [rpcCall EXCEPT !.pc = "done", !.got = got,
                                        !.promise = Resolve([success |-> TRUE,
                                                             frequency |-> rpcCall.freq,
                                                             mode |-> value])]
  /\ UNCHANGED <<relay, rig, store, wire, contact, mobile, rpcData>>

\* req.on('error') and req.setTimeout(5000): sendRequest rejects, and so does test().
reqOnError ==
  /\ rpcCall.pc \in {RpcMethods[1], RpcMethods[2]}
  /\ \E e \in FlrigErrors : rpcCall' = [rpcCall EXCEPT !.pc = "done", !.promise = Reject(e)]
  /\ UNCHANGED <<relay, rig, store, wire, contact, mobile, rpcData>>

(* ------------------------------------------------- the contact conversions *)
With(q, f, v) == [g \in DOMAIN q \cup {f} |-> IF g = f THEN v ELSE q[g]]
Without(q, f) == [g \in DOMAIN q \ {f} |-> q[g]]

\* The number just below and just above x.
Pred(x) == IF x.micro = 0 THEN Decimal(x.n - 1, Power10(MicroDigits) - 1) ELSE Decimal(x.n, x.micro - 1)
Succ(x) == IF x.micro = Power10(MicroDigits) - 1 THEN Decimal(x.n + 1, 0) ELSE Decimal(x.n, x.micro + 1)

\* The edges of every band of a table, the frequencies next to them, and one
\* frequency inside.
Around(table) ==
  UNION {{table[i].lo, Pred(table[i].lo), table[i].hi, Succ(table[i].hi),
          Succ(table[i].lo)} : i \in 1..Len(table)}

\* Frequencies as they arrive: MHz for the relay, kHz for the mobile client, a
\* frequency in no band, a number instead of a string, text that is no number.
FrequencyValues ==
  {Str(NumberText(x)) : x \in Around(N1mmBands) \cup Around(SpotBands)}
    \cup {Str("12"), Str("12000"), Str("14.1"), Str("7.2"), Str("abc"), Num(Decimal(14, 100000))}

\* The modes of the table, its outputs, modes it does not know, and names that
\* every object has.
ModeValues ==
  {Str(m) : m \in DOMAIN ModeTable \cup {"SSB", "PSK", "DIGI", "JS8", "SSTV", "", "constructor",
                                         "toString"}} \cup {Undefined}

DateValues == {Str("20240115"), Str("2024-01-15"), Str("240115"), Undefined}
TimeValues == {Str("143000"), Str("1430"), Str("14:30:00"), Undefined}
CallValues == {Str("K1ABC"), Str("W1AW/P"), Str("EA8/DL1ABC/P")}

Contacts ==
  {RelayContact, MobileContact}
    \cup {With(q, "frequency", v) : q \in {RelayContact, MobileContact}, v \in FrequencyValues}
    \cup {With(q, "mode", v) : q \in {RelayContact, MobileContact}, v \in ModeValues}
    \cup {With(With(RelayContact, "qso_date", d), "time_on", t) : d \in DateValues, t \in TimeValues}
    \cup {With(q, "callsign", v) : q \in {RelayContact, MobileContact}, v \in CallValues}
    \cup {Without(RelayContact, f) : f \in DOMAIN RelayContact}
    \cup {With(With(RelayContact, "sig", Str("POTA")), "sig_info", v) : v \in {Str("K-0001"), Str("")}}
    \cup {With(RelayContact, "comment", v) : v \in {Str("tnx"), Str("")}}
    \cup {With(RelayContact, "my_call", Str("N0CALL"))}

\* A contact is at hand and nothing has been built from it.
InitContact ==
  /\ Constructed
  /\ config.radioControl = "none"
  /\ config.loggingMode = "none"
  /\ NoCommand
  /\ NoRpc
  /\ NoMobile
  /\ rig = NotFollowed /\ store = Saved(config)
  /\ qso \in Contacts
  /\ document = NotBuilt

\* handleLogRequest, loggingMode hrd: "const adifString = this.buildADIFString(qsoData)"
hrdLogbookRecord ==
  /\ document = NotBuilt
  /\ document' = By("buildADIFString", buildADIFString(qso))
  /\ UNCHANGED <<relay, rig, store, wire, xmlrpc, mobile, qso>>

\* relay.js, POST /log: "const adifRecord = buildADIFRecord(qsoData)"
relayLogRecord ==
  /\ document = NotBuilt
  /\ document' = By("buildADIFRecord", buildADIFRecord(qso))
  /\ UNCHANGED <<relay, rig, store, wire, xmlrpc, mobile, qso>>

\* N1MMLogger.sendContact(n1mmQSO): "const xml = this.buildContactAddXML(qso)"
sendContact ==
  /\ document = NotBuilt
  /\ document' = By("buildContactAddXML", Built(buildContactAddXML(N1mmQSO(qso))))
  /\ UNCHANGED <<relay, rig, store, wire, xmlrpc, mobile, qso>>

\* SpotCard: "const band = getBand(spot.frequency)"
spotBand ==
  /\ document = NotBuilt
  /\ document' = By("getBand", Built(getBand(Get(qso, "frequency"))))
  /\ UNCHANGED <<relay, rig, store, wire, xmlrpc, mobile, qso>>

\* exportToADIF: "const band = getBandFromFreq(log.frequency)"
exportBand ==
  /\ document = NotBuilt
  /\ document' = By("getBandFromFreq", Built(getBandFromFreq(Get(qso, "frequency"))))
  /\ UNCHANGED <<relay, rig, store, wire, xmlrpc, mobile, qso>>

\* buildContactAddXML: "const band = this.convertFreqToBand(qso.frequency)", for
\* the frequency of the spot in Hz.
contactBand ==
  /\ document = NotBuilt
  /\ document' = By("convertFreqToBand",
                    Built(convertFreqToBand(KHzToHz(ParsedFloat(Get(qso, "frequency"))))))
  /\ UNCHANGED <<relay, rig, store, wire, xmlrpc, mobile, qso>>

\* The edges of the bands of the three tables in MHz, the frequencies one Hz
\* below and above each edge, and some frequencies inside and outside the bands.
Edges(table) == UNION {{table[i].lo, table[i].hi} : i \in 1..Len(table)}
BandFrequencies ==
  UNION {{Pred(x), x, Succ(x)} :
           x \in Edges(N1mmBands) \cup {KHzToMHz(y) : y \in Edges(SpotBands) \cup Edges(ExportBands)}}
    \cup {Decimal(14, 100000), Decimal(12, 0), Decimal(5, 350000), Decimal(223, 0), Decimal(432, 0)}

\* A spot (or a log entry) of the mobile client with its frequency in kHz.
InitBands ==
  /\ Constructed
  /\ config.radioControl = "none"
  /\ config.loggingMode = "none"
  /\ NoCommand
  /\ NoRpc
  /\ NoMobile
  /\ rig = NotFollowed /\ store = Saved(config)
  /\ \E x \in BandFrequencies : qso = [frequency |-> Str(NumberText(MHzToKHz(x)))]
  /\ document = NotBuilt

(* ------------------------------------------- the mobile client: logging a QSO *)
\* How the POST to the relay's /log ends: the relay answers success: true, it
\* answers success: false, fetch throws (the relay cannot be reached), or the
\* response is not JSON.
FetchOutcomes == {"success", "error", "unreachable", "invalid"}

\* logQSOToHRD(settings, qsoData), given how the fetch ends: every error is
\* caught and returned as success: false.
logQSOToHRD(settings, outcome) ==
  IF ~settings.enabled THEN [success |-> FALSE, message |-> "HRD connection is disabled"]
  ELSE CASE outcome = "success" -> [success |-> TRUE, message |-> "QSO logged"]
         [] outcome = "error" -> [success |-> FALSE, message |-> "Failed to log QSO"]
         [] outcome = "unreachable" ->
              [success |-> FALSE, message |-> "Cannot reach HRD Relay. Is it running?"]
         [] OTHER -> [success |-> FALSE, message |-> "Log error: JSON Parse error"]

\* A savedReason that tells only whether HRD took the QSO.
savedReason_hrdOnly(enabled, loggedToHRD) == IF loggedToHRD THEN "manual" ELSE "hrd-error"

\* "savedReason: !hrdSettings.enabled ? 'relay-unavailable' : loggedToHRD ? 'manual' : 'hrd-error'"
savedReason(enabled, loggedToHRD) ==
  IF ~enabled THEN "relay-unavailable" ELSE IF loggedToHRD THEN "manual" ELSE "hrd-error"

\* handleLogSubmit calls saveToInternalLog: the entry is made and getInternalLogs
\* is awaited.
saveToInternalLog(sub) ==
  [sub EXCEPT !.pc = "getItem",
              !.saves = @ + 1,
              !.entry = [id |-> sub.id,
                         savedReason |-> savedReason(hrdSettings.enabled, sub.loggedToHRD)]]

\* The end of handleLogSubmit: the alert for what succeeded, and the error thrown
\* when neither HRD nor the internal log took the QSO.
ShowAlert(sub) ==
  [sub EXCEPT !.pc = "idle",
              !.alert = IF sub.loggedToHRD
                        THEN (IF sub.stored THEN "QSO Logged" ELSE "QSO Logged to HRD")
                        ELSE IF sub.stored THEN "Saved to Internal Log" ELSE "Log Failed",
              !.threw = ~sub.loggedToHRD /\ ~sub.stored]

\* The HRD settings of the client, and a client that has logged nothing.
InitMobile ==
  /\ Constructed
  /\ config.radioControl = "none"
  /\ config.loggingMode = "none"
  /\ NoCommand
  /\ NoRpc
  /\ NoContact
  /\ rig = NotFollowed /\ store = Saved(config)
  /\ hrdSettings \in [enabled : BOOLEAN]
  /\ submit = NoSubmit
  /\ internalLogs = <<>>
  /\ nSubmits = 0
  /\ removal = NoRemoval

\* LogModal.handleSubmit -> handleLogSubmit(qsoData), up to its first await.
\* The submit button is disabled while a submission is in progress.
handleLogSubmit ==
  /\ submit.pc = "idle"
  /\ nSubmits < MaxSubmits
  /\ nSubmits' = nSubmits + 1
  /\ \E commented \in BOOLEAN :
       LET sub == [NoSubmit EXCEPT !.id = nSubmits + 1, !.commented = commented] IN
       submit' = IF hrdSettings.enabled THEN [sub EXCEPT !.pc = "fetch"]
                 ELSE saveToInternalLog([sub EXCEPT !.hrd = "disabled"])
  /\ UNCHANGED <<relay, rig, store, wire, xmlrpc, contact, removal, hrdSettings, internalLogs>>

\* "const result = await logQSOToHRD(...)" has settled; saveToInternalLog is called.
hrdLogged ==
  /\ submit.pc = "fetch"
  /\ \E outcome \in FetchOutcomes :
       LET hrdResult == logQSOToHRD(hrdSettings, outcome) IN
       submit' = saveToInternalLog(
                   [submit EXCEPT !.hrd = outcome,
                                  !.loggedToHRD = hrdResult.success,
                                  !.hrdErrorMessage = IF hrdResult.success THEN "" ELSE hrdResult.message])
  /\ UNCHANGED <<relay, rig, store, wire, xmlrpc, contact, removal, hrdSettings, internalLogs, nSubmits>>

\* getInternalLogs: "await AsyncStorage.getItem(STORAGE_KEY)"; a read that fails
\* is caught and gives [].  Then "const updated = [newEntry, ...existing]".
logsRead ==
  /\ submit.pc = "getItem"
  /\ \E readable \in BOOLEAN :
       submit' = [submit EXCEPT !.pc = "setItem",
                                !.updated = <<submit.entry>>
                                              \o (IF readable THEN internalLogs ELSE <<>>)]
  /\ UNCHANGED <<relay, rig, store, wire, xmlrpc, contact, removal, hrdSettings, internalLogs, nSubmits>>

\* "await AsyncStorage.setItem(STORAGE_KEY, JSON.stringify(updated))" has settled
\* and saveToInternalLog returns; with a comment the spot is re-spotted first,
\* without one handleLogSubmit goes on to its alert.
logsWritten ==
  /\ submit.pc = "setItem"
  /\ \E written \in BOOLEAN :
       /\ internalLogs' = IF written THEN submit.updated ELSE internalLogs
       /\ submit' = LET sub == [submit EXCEPT !.stored = written] IN
                    IF sub.commented THEN [sub EXCEPT !.pc = "reSpot"] ELSE ShowAlert(sub)
  /\ UNCHANGED <<relay, rig, store, wire, xmlrpc, contact, removal, hrdSettings, nSubmits>>

\* "const reSpotResult = await reSpotActivator(...)" has settled.
reSpotted ==
  /\ submit.pc = "reSpot"
  /\ \E success \in BOOLEAN : submit' = ShowAlert([submit EXCEPT !.reSpotted = success])
  /\ UNCHANGED <<relay, rig, store, wire, xmlrpc, contact, removal, hrdSettings, internalLogs, nSubmits>>

(* --------------------------------- the mobile client: deleting a log entry *)
\* The log screen's delete button -> deleteLogEntry(log.id), up to its first await.
deleteLogEntry ==
  /\ removal.pc = "idle"
  /\ removal.n < MaxDeletes
  /\ \E k \in 1..Len(internalLogs) :
       removal' = [pc |-> "getItem", id |-> internalLogs[k].id, filtered |-> <<>>,
                   n |-> removal.n + 1, deleted |-> FALSE]
  /\ UNCHANGED <<relay, rig, store, wire, xmlrpc, contact, hrdSettings, submit, internalLogs,
                 nSubmits>>

\* "const logs = await getInternalLogs()" has settled (a read that fails gives []);
\* "const filtered = logs.filter(log => log.id !== id)".
logsFiltered ==
  /\ removal.pc = "getItem"
  /\ \E readable \in BOOLEAN :
       LET logs == IF readable THEN internalLogs ELSE <<>> IN
       removal' = [removal EXCEPT !.pc = "setItem",
                                  !.filtered = SelectSeq(logs, LAMBDA log : log.id # removal.id)]
  /\ UNCHANGED <<relay, rig, store, wire, xmlrpc, contact, hrdSettings, submit, internalLogs,
                 nSubmits>>

\* "await AsyncStorage.setItem(STORAGE_KEY, JSON.stringify(filtered))" has settled:
\* deleteLogEntry returns true, or false when the write failed.
logsReplaced ==
  /\ removal.pc = "setItem"
  /\ \E written \in BOOLEAN :
       /\ internalLogs' = IF written THEN removal.filtered ELSE internalLogs
       /\ removal' = [removal EXCEPT !.pc = "idle", !.deleted = written]
  /\ UNCHANGED <<relay, rig, store, wire, xmlrpc, contact, hrdSettings, submit, nSubmits>>

(* ---------------------------- the desktop app: settings and connection test *)
\* ipcMain 'save-settings': "store.set(settings)".  The relay is not told.
saveSettings ==
  /\ Idle
  /\ \E radioControl \in RadioModes : store' = [store EXCEPT !.radioControl = radioControl]
  /\ UNCHANGED <<relay, rig, wire, others>>

\* testFLRIGConnection(): "if (!this.flrigClient) this.flrigClient = new FLRIGClient(...)"
testFLRIGConnection ==
  IF flrigClient = NullClient THEN FLRIGClient(config.flrigPort) ELSE flrigClient

\* ipcMain 'test-hrd-connection': the radio control mode is read from the settings
\* file, not from the config of the relay.  none: answered at once; hrd:
\* sendHRDCommand('get frequency'), which touches no field of the relay; flrig:
\* testFLRIGConnection().
testConnection ==
  /\ Idle
  /\ flrigClient' = IF store.radioControl = "flrig" THEN testFLRIGConnection ELSE flrigClient
  /\ out' = Called("test")
  /\ UNCHANGED <<config, httpServer, isRunning, n1mmLogger, stats, servers, loggers, nCalls,
                 tickQ, microQ, inMicro, foreign, nReqs, reqs>>
  /\ UNCHANGED <<wire, others, rig, store>>

(* ------------------------------------------------------ the specifications *)
\* Every operation, on every route.
Next ==
  \/ startServer(MaxCalls)
  \/ stopServer(MaxCalls)
  \/ updateConfig(MaxCalls, NewConfigs)
  \/ runTick
  \/ runMicrotask
  \/ portTaken
  \/ portReleased
  \/ handleRequest(RequestKinds, MaxRequests)
  \/ hrdConnected
  \/ hrdRefused
  \/ hrdTimeout
  \/ hrdResponse
  \/ flrigResponse
  \/ flrigFailed
  \/ udpSent
  \/ connectionClosed

Spec == Init /\ [][Next]_vars

\* The lifecycle under every order of API calls, with bind failures; the HTTP
\* side is reduced to connections that keep a closing server open.
NextLifecycle ==
  \/ startServer(MaxCalls)
  \/ stopServer(MaxCalls)
  \/ updateConfig(MaxCalls, NewConfigs)
  \/ runTick
  \/ runMicrotask
  \/ portTaken
  \/ portReleased
  \/ handleRequest({"status"}, MaxRequests)
  \/ connectionClosed

SpecLifecycle == Init /\ [][NextLifecycle]_vars

\* Repeated reconfiguration from the settings window, one call more than above.
NextReconfigure ==
  \/ startServer(MaxReconfigureCalls)
  \/ updateConfig(MaxReconfigureCalls, NewConfigs)
  \/ runTick
  \/ runMicrotask
  \/ handleRequest({"status"}, MaxRequests)
  \/ connectionClosed

SpecReconfigure == Init /\ [][NextReconfigure]_vars

\* The request handlers against every backend behaviour, on a relay that is
\* started and reconfigured from the settings window.
NextRelay ==
  \/ startServer(MaxRelayCalls)
  \/ updateConfig(MaxRelayCalls, ModeChanges)
  \/ runTick
  \/ runMicrotask
  \/ handleRequest(BackendKinds, MaxRequests)
  \/ hrdConnected
  \/ hrdRefused
  \/ hrdTimeout
  \/ hrdResponse
  \/ flrigResponse
  \/ flrigFailed
  \/ udpSent
  \/ connectionClosed

SpecRelay == Init /\ [][NextRelay]_vars

\* Requests of every method and route against every backend behaviour, on a relay
\* that is started and left alone.
NextStats ==
  \/ startServer(MaxRelayCalls)
  \/ runTick
  \/ handleRequest(Routes, MaxRequests)
  \/ hrdConnected
  \/ hrdRefused
  \/ hrdTimeout
  \/ hrdResponse
  \/ flrigResponse
  \/ flrigFailed
  \/ udpSent
  \/ connectionClosed

SpecStats == Init /\ [][NextStats]_vars

\* Requests of every method and route on a relay that is started, stopped and
\* reconfigured while they are handled.
NextCounters ==
  \/ startServer(MaxRelayCalls)
  \/ stopServer(MaxRelayCalls)
  \/ updateConfig(MaxRelayCalls, ModeChanges)
  \/ runTick
  \/ runMicrotask
  \/ handleRequest(Routes, MaxRequests)
  \/ hrdConnected
  \/ hrdRefused
  \/ hrdTimeout
  \/ hrdResponse
  \/ flrigResponse
  \/ flrigFailed
  \/ udpSent
  \/ connectionClosed

SpecCounters == Init /\ [][NextCounters]_vars

\* "req.setTimeout(5000, ...)" of FLRIGClient.sendRequest fires.
flrigTimedOut ==
  /\ flrigFailed
  /\ \E r \in Pending("rpc") : reqs'[r].resp.message = "Error: FLRIG connection timeout"

\* The request handlers on a relay that is started and left alone.
NextAnswer ==
  \/ startServer(MaxRelayCalls)
  \/ runTick
  \/ handleRequest(BackendKinds, MaxRequests)
  \/ hrdConnected
  \/ hrdRefused
  \/ hrdTimeout
  \/ hrdResponse
  \/ flrigResponse
  \/ flrigFailed
  \/ udpSent
  \/ connectionClosed

\* That relay with Node's scheduling guarantees: pending nextTick callbacks
\* run, an armed timer fires (the 5000 ms timers of readHRDResponse and of
\* FLRIGClient.sendRequest), and the callback of a UDP send is called.  Nothing
\* is assumed of the backends.
SpecAnswer ==
  /\ Init
  /\ [][NextAnswer]_vars
  /\ WF_vars(runTick)
  /\ WF_vars(hrdTimeout)
  /\ WF_vars(flrigTimedOut)
  /\ WF_vars(udpSent)

\* Requests that are in flight while the settings window reconfigures the relay.
NextOverlap ==
  \/ startServer(MaxReconfigureCalls)
  \/ updateConfig(MaxReconfigureCalls, NewConfigs)
  \/ runTick
  \/ runMicrotask
  \/ handleRequest({"status", "frequency"}, MaxOverlapRequests)
  \/ hrdConnected
  \/ hrdResponse
  \/ flrigResponse
  \/ connectionClosed

SpecOverlap == Init /\ [][NextOverlap]_vars

\* The frame codec on every command text and on every damaged frame.
NextCodec ==
  \/ buildFrame
  \/ receive
  \/ parseFrame

SpecCodec == InitCodec /\ [][NextCodec]_vars

\* readHRDResponse on every stream, under every chunking, with and without the
\* 'close' listener.
NextRead ==
  \/ onData
  \/ onTimeout
  \/ socketClosed
  \/ socketError

SpecRead == InitRead /\ [][NextRead]_vars

\* The timer armed by setTimeout fires unless clearTimeout cancels it.
SpecReadFair == SpecRead /\ WF_vars(onTimeout)

\* Commands sent to HRD one after the other.
NextCommand ==
  \/ sendCommand
  \/ onConnect
  \/ hrdReplies
  \/ onData
  \/ onTimeout
  \/ socketClosed
  \/ socketError

SpecCommand == InitCommand /\ [][NextCommand]_vars

\* FLRIGClient.test() against every answer FLRIG can give to its two calls.
NextRpc ==
  \/ test
  \/ resOnEnd
  \/ reqOnError

SpecRpc == InitRpc /\ [][NextRpc]_vars

\* The builders of ADIF records and of the N1MM document, and the band lookups, on
\* every contact.
NextContact ==
  \/ hrdLogbookRecord
  \/ relayLogRecord
  \/ sendContact
  \/ spotBand

SpecContact == InitContact /\ [][NextContact]_vars

\* The three band lookups on one frequency.
NextBands ==
  \/ spotBand
  \/ exportBand
  \/ contactBand

SpecBands == InitBands /\ [][NextBands]_vars

\* The mobile client logging QSOs, with HRD enabled or not, against every end of
\* the request to the relay and of the reads and writes of AsyncStorage.
NextMobile ==
  \/ handleLogSubmit
  \/ hrdLogged
  \/ logsRead
  \/ logsWritten
  \/ reSpotted

SpecMobile == InitMobile /\ [][NextMobile]_vars

\* The internal log written by QSOs being logged and by entries being deleted
\* from the log screen at the same time.
NextStorage ==
  \/ handleLogSubmit
  \/ hrdLogged
  \/ logsRead
  \/ logsWritten
  \/ reSpotted
  \/ deleteLogEntry
  \/ logsFiltered
  \/ logsReplaced

SpecStorage == InitMobile /\ [][NextStorage]_vars

\* Tuning requests that race: several are in flight at once, against an HRD
\* that answers, refuses or stays silent, and the radio is followed.  The
\* logging mode, which handleFrequencyRequest does not read, is none.
InitRace ==
  /\ Constructed
  /\ config.loggingMode = "none"
  /\ NoCommand
  /\ NothingElse
  /\ rig = Followed /\ store = Saved(config)

NextRace ==
  \/ startServer(MaxRelayCalls)
  \/ runTick
  \/ receiveRequest({"frequency"}, MaxRaceRequests, MaxRacing)
  \/ hrdConnected
  \/ hrdRefused
  \/ hrdTimeout
  \/ hrdResponse
  \/ flrigResponse
  \/ flrigFailed
  \/ connectionClosed

SpecRace == InitRace /\ [][NextRace]_vars

\* The settings window changing modes and backend ports, on a relay that is
\* running or not.
NextRebuild ==
  \/ startServer(MaxReconfigureCalls)
  \/ updateConfig(MaxReconfigureCalls, ClientChanges)
  \/ runTick
  \/ runMicrotask

SpecRebuild == Init /\ [][NextRebuild]_vars

\* The settings window: settings saved and applied, connection tests, on a relay
\* that is running or not.
NextSettings ==
  \/ startServer(MaxRelayCalls)
  \/ updateConfig(MaxRelayCalls, ClientChanges)
  \/ runTick
  \/ runMicrotask
  \/ saveSettings
  \/ testConnection

SpecSettings == Init /\ [][NextSettings]_vars

(* ------------------------------------------- claims about request handling *)
\* The request's record shows a rejected backend call or a failed send.
BackendFailed(rec) == \E i \in 1..Len(rec.log) : rec.log[i].ev = "error"

\* The backends a request has contacted.
Contacted(rec) == {rec.log[i].to : i \in 1..Len(rec.log)}

IsPrefix(p, q) == Len(p) <= Len(q) /\ SubSeq(q, 1, Len(p)) = p

HrdTuneExchange ==
  <<[ev |-> "connect", to |-> "hrd", cmd |-> "set frequency-hz"],
    [ev |-> "frame", to |-> "hrd", cmd |-> "set frequency-hz"],
    [ev |-> "reply", to |-> "hrd", cmd |-> "set frequency-hz"],
    [ev |-> "connect", to |-> "hrd", cmd |-> "set mode"],
    [ev |-> "frame", to |-> "hrd", cmd |-> "set mode"],
    [ev |-> "reply", to |-> "hrd", cmd |-> "set mode"]>>

\* C2: with radioControl = hrd and a backend that acknowledges every command, a
\* /frequency request writes the 'set frequency-hz' frame, waits for its reply,
\* writes the 'set mode' frame, waits for its reply, and only then answers
\* {success:true}: two frames, in this order, nothing else.
C2_TwoFramesInOrder ==
  \A r \in ReqIds :
    (/\ reqs[r].kind = "frequency"
     /\ reqs[r].body = "ok"
     /\ config.radioControl = "hrd"
     /\ ~BackendFailed(reqs[r])) =>
       /\ IsPrefix(reqs[r].log, HrdTuneExchange)
       /\ reqs[r].st = "done" <=> reqs[r].log = HrdTuneExchange
       /\ reqs[r].st = "done" => (reqs[r].resp.status = 200 /\ reqs[r].resp.success)

C2_Witness ==
  \E r \in ReqIds :
    /\ reqs[r].kind = "frequency"
    /\ config.radioControl = "hrd"
    /\ reqs[r].log = HrdTuneExchange
    /\ reqs[r].resp.success

SetFrequencyCommands == {"set frequency-hz", "rig.set_vfo"}
SetModeCommands == {"set mode", "rig.set_mode"}

\* C3: a /frequency request (hrd or flrig) whose set-frequency or set-mode call
\* is rejected is answered success:false and contacts the backend no more: the
\* failure is the last thing in its record, set-mode is never sent after a failed
\* set-frequency, and set-frequency is sent once only (nothing restores the
\* previous frequency).
C3_FailFastNoRollback ==
  \A r \in ReqIds :
    LET rec == reqs[r]
        n == Len(rec.log) IN
    (rec.kind = "frequency" /\ BackendFailed(rec)) =>
      /\ rec.st = "done"
      /\ rec.resp.success = FALSE
      /\ rec.log[n].ev = "error"
      /\ \A i \in 1..(n - 1) : rec.log[i].ev # "error"
      /\ rec.log[n].cmd \in SetFrequencyCommands =>
           \A i \in 1..n : rec.log[i].cmd \notin SetModeCommands
      /\ Cardinality({i \in 1..n : /\ rec.log[i].ev \in {"connect", "post"}
                                   /\ rec.log[i].cmd \in SetFrequencyCommands}) = 1

C3_Witness ==
  \E r \in ReqIds :
    LET rec == reqs[r] IN
    /\ rec.kind = "frequency"
    /\ BackendFailed(rec)
    /\ rec.log[Len(rec.log)].cmd \in SetModeCommands
    /\ rec.resp.success = FALSE

\* C4: with radioControl = none a well-formed /frequency and a /test request, and
\* with loggingMode = none a well-formed /log request, are answered success:true
\* at once and contact no backend.
C4_NoneModeShortCircuit ==
  \A r \in ReqIds :
    LET rec == reqs[r]
        short == rec.st = "done" /\ rec.resp.status = 200 /\ rec.resp.success /\ rec.log = <<>> IN
    /\ (rec.kind \in {"frequency", "test"} /\ rec.body # "bad" /\ config.radioControl = "none")
         => short
    /\ (rec.kind = "log" /\ rec.body # "bad" /\ config.loggingMode = "none") => short

C4_Witness ==
  \E r \in ReqIds :
    /\ reqs[r].kind = "log"
    /\ config.loggingMode = "none"
    /\ config.radioControl # "none"
    /\ reqs[r].resp.success
    /\ reqs[r].log = <<>>

\* The backend each mode names.
RadioBackends(mode) == IF mode = "none" THEN {} ELSE {mode}
LogBackends(mode) == CASE mode = "hrd" -> {"hrdlog"} [] mode = "n1mm" -> {"n1mm"} [] OTHER -> {}

\* C5: a /frequency or /test request contacts only the backend radioControl
\* names, a /log request only the one loggingMode names, and a configuration
\* change of one of the two modes leaves the other mode as it was.
C5_IndependentAxes ==
  [][/\ \A r \in ReqIds :
          /\ reqs'[r].kind \in {"frequency", "test"} =>
               Contacted(reqs'[r]) \subseteq RadioBackends(config'.radioControl)
          /\ reqs'[r].kind = "log" =>
               Contacted(reqs'[r]) \subseteq LogBackends(config'.loggingMode)
     /\ \/ config'.radioControl = config.radioControl
        \/ config'.loggingMode = config.loggingMode]_vars

C5_Witness ==
  \E r \in ReqIds :
    /\ reqs[r].kind = "log"
    /\ Contacted(reqs[r]) = {"n1mm"}
    /\ config.radioControl = "flrig"
    /\ stats.startTime = 2

(* ------------------------------------------------ claims about the lifecycle *)
\* A stop() has been accepted and its close callback has not run yet.
ClosePending == \E s \in CallIds : servers[s].cbs # <<>>

\* A start() has bound its listener and the 'listening' callback has not run yet.
ListenPending ==
  \E i \in 1..Len(tickQ) : tickQ[i].t = "listening" /\ servers[tickQ[i].s].st = "listening"

\* The lifecycle state of the orchestrator.  A start() whose bind fails never
\* leaves Stopped.
Lifecycle ==
  IF isRunning THEN (IF ClosePending THEN "Stopping" ELSE "Running")
  ELSE IF ListenPending THEN "Starting" ELSE "Stopped"

LifecycleSteps ==
  {<<"Stopped", "Starting">>, <<"Starting", "Running">>, <<"Running", "Stopping">>,
   <<"Stopping", "Stopped">>}

\* C6: the lifecycle moves only along Stopped -> Starting -> Running -> Stopping
\* -> Stopped; the step into Running stores the start timestamp and emits exactly
\* one 'started', the step from Stopping back to Stopped emits exactly one
\* 'stopped', and no other step emits a status event.
C6_LifecycleChain ==
  [][/\ Lifecycle' # Lifecycle => <<Lifecycle, Lifecycle'>> \in LifecycleSteps
     /\ IF Lifecycle # "Running" /\ Lifecycle' = "Running"
        THEN out'.emits = <<"started">> /\ stats'.startTime = Head(tickQ).s
        ELSE IF Lifecycle = "Stopping" /\ Lifecycle' = "Stopped"
        THEN out'.emits = <<"stopped">>
        ELSE out'.emits = <<>>]_vars

\* C7: start() called while Running is rejected with 'Server already running'
\* and leaves the listener, the config, the stats and the running flag as they were.
C7_StartWhileRunning ==
  [][(out'.call = "start" /\ Lifecycle = "Running") =>
       /\ out'.settled = <<Settled(nCalls', "start", "already running")>>
       /\ out'.emits = <<>>
       /\ UNCHANGED <<servers, httpServer, config, stats, isRunning, tickQ, microQ>>]_vars

C7_Witness ==
  /\ out.call = "start"
  /\ out.settled = <<Settled(nCalls, "start", "already running")>>
  /\ Lifecycle = "Running"
  /\ servers[httpServer].st = "listening"

\* C8: stop() called in any state but Running is rejected with 'Server not
\* running', registers no close callback, emits nothing and changes nothing.
C8_StopWhileNotRunning ==
  [][(out'.call = "stop" /\ Lifecycle # "Running") =>
       /\ out'.settled = <<Settled(nCalls', "stop", "not running")>>
       /\ out'.emits = <<>>
       /\ UNCHANGED <<servers, httpServer, config, stats, isRunning, tickQ, microQ>>]_vars

\* C9: a step that rejects a start() with the bind error leaves the orchestrator
\* not running and without a bound listener, and start() is open again (the
\* guard of start() does not reject).
C9_BindFailure ==
  [][(\E i \in 1..Len(out'.settled) : out'.settled[i].res = "EADDRINUSE") =>
       /\ ~isRunning'
       /\ \A s \in CallIds : servers'[s].st # "listening"
       /\ ~startRejects']_vars

\* The partial config of an updateConfig whose reaction runs in this step.
Reaction == Head(microQ)

\* C10: updateConfig on a Running orchestrator leaves the config alone and asks
\* the listener to close; the config is replaced only in the reaction to the
\* completed stop (running flag cleared, stopped listener closed), and in that
\* same step start() creates the new listener on the new config's port.
\* updateConfig on a Stopped orchestrator replaces the config at once and creates
\* or binds nothing.
C10_UpdateOrder ==
  [][/\ (out'.call = "update" /\ Lifecycle = "Running") =>
          /\ config' = config
          /\ servers'[httpServer].st = "closing"
          /\ Lifecycle' = "Stopping"
     /\ (out'.call = "update" /\ Lifecycle = "Stopped") =>
          /\ \E newConfig \in NewConfigs : config' = MergeConfig(config, newConfig)
          /\ out'.settled = <<Settled(nCalls', "update", "ok")>>
          /\ UNCHANGED <<servers, httpServer, isRunning, tickQ, microQ>>
     /\ (microQ' # microQ /\ Len(microQ') < Len(microQ)) =>
          /\ ~isRunning
          /\ servers[Reaction.s].st = "closed"
          /\ config' = MergeConfig(config, Reaction.newConfig)
          /\ httpServer' = Reaction.c
          /\ servers'[Reaction.c].st \in {"listening", "failed"}
          /\ servers'[Reaction.c].st = "listening" => servers'[Reaction.c].port = config'.httpPort
     /\ config' # config => (out'.call = "update" \/ Len(microQ') < Len(microQ))]_vars

C10_Witness ==
  /\ servers[1].st = "closed"
  /\ httpServer = 2
  /\ servers[2] = [st |-> "listening", port |-> AltHttpPort, cbs |-> <<>>]
  /\ config.httpPort = AltHttpPort
  /\ isRunning
  /\ stats.startTime = 2

(* ------------------------------------- claims about requests in flight *)
\* Request r, a tuning request, is suspended at the await of its first backend call.
AwaitingTune(r) ==
  reqs[r].kind = "frequency" /\ reqs[r].step = 1 /\ reqs[r].st \in {"waiting", "rpc"}

\* C11: a /frequency request that is in flight while updateConfig runs makes all
\* its backend calls against one config and one client: when its first call has
\* resolved and the handler carries on with the second, radioControl is the mode
\* the request was dispatched under and this.flrigClient is the client the first
\* call was made on (never null).
C11_OneConfigPerRequest ==
  [][\A r \in ReqIds :
       (/\ AwaitingTune(r)
        /\ Len(reqs'[r].log) > Len(reqs[r].log)
        /\ reqs'[r].log[Len(reqs[r].log) + 1].ev = "reply") =>
         /\ config.radioControl = reqs[r].mode
         /\ reqs[r].mode = "flrig" => flrigClient = reqs[r].client]_vars

(* ------------------------------------------- claims about the frame codec *)
HasNul(text) == \E i \in 1..Len(text) : text[i] = NUL

\* C12: for every command text without a NUL, parsing the frame that
\* buildHRDFrame(command, false) returns succeeds with a text equal to the command.
C12_RoundTrip ==
  (pc = "parsed" /\ buffer = frame /\ ~prependContext /\ ~HasNul(command)) =>
    /\ parsed.error = NullError
    /\ parsed.data = command

C12_Witness ==
  /\ pc = "parsed"
  /\ buffer = frame
  /\ ~prependContext
  /\ command = <<256, 321>>
  /\ parsed.data = command

\* The bytes of the two magic constants as they lie in a frame.
Magic1Bytes == <<205, 171, 52, 18>>
Magic2Bytes == <<52, 18, 205, 171>>

\* The number of code units buildHRDFrame encodes: prefix, command, NUL.
PayloadUnits == (IF prependContext THEN Len(ContextPrefix) ELSE 0) + Len(command) + 1

\* C13: for every command text and either value of prependContext, the size
\* field of the built frame is the byte length of the whole buffer, which is 16
\* plus the payload bytes, magic1 is 0x1234ABCD, magic2 is 0xABCD1234 and the
\* checksum field is 0.
C13_HeaderOfBuiltFrame ==
  pc # "command" =>
    /\ Len(frame) = 16 + 2 * PayloadUnits
    /\ SubSeq(frame, 1, 4) = <<Len(frame) % 256, Len(frame) \div 256, 0, 0>>
    /\ SubSeq(frame, 5, 8) = Magic1Bytes
    /\ SubSeq(frame, 9, 12) = Magic2Bytes
    /\ SubSeq(frame, 13, 16) = <<0, 0, 0, 0>>

C13_Witness ==
  /\ pc = "built"
  /\ prependContext
  /\ HasNul(command)
  /\ Len(frame) = 16 + 2 * (Len(ContextPrefix) + 2 + 1)

\* The bytes at the two magic offsets are the expected ones.
MagicsValid(buf) == SubSeq(buf, 5, 8) = Magic1Bytes /\ SubSeq(buf, 9, 12) = Magic2Bytes

\* C14: parseHRDResponse on a buffer shorter than 16 bytes fails with 'Response
\* too short'; on a buffer of at least 16 bytes in which either magic constant
\* is not the expected one it fails with 'Magic mismatch', whatever the size
\* field and the payload hold.
C14_TooShortThenMagic ==
  pc = "parsed" =>
    /\ Len(buffer) < 16 => parsed = Rejected("Response too short")
    /\ (Len(buffer) >= 16 /\ ~MagicsValid(buffer)) => parsed = Rejected("Magic mismatch")

\* Magic 2 alone is wrong, and the size field names more than the buffer holds.
C14_Witness ==
  /\ pc = "parsed"
  /\ Len(buffer) >= 16
  /\ SubSeq(buffer, 5, 8) = Magic1Bytes
  /\ SubSeq(buffer, 9, 12) # Magic2Bytes
  /\ LengthBelow(Len(buffer), ReadUInt32LE(buffer, 0))
  /\ parsed.error = "Magic mismatch"

\* C15: parseHRDResponse on a buffer with both magic constants right fails with
\* 'Incomplete response' when the declared size exceeds the buffer length;
\* otherwise it succeeds, and the text is the code units of the bytes from offset
\* 16 up to the declared size, up to the first NUL code unit: every unit of the
\* text lies below the declared size, none is NUL, and the text stops only at a
\* NUL or where no complete unit is left below the declared size.
C15_PayloadWithinSize ==
  (pc = "parsed" /\ Len(buffer) >= 16 /\ MagicsValid(buffer)) =>
    LET size == ReadUInt32LE(buffer, 0)
        text == parsed.data
        n == Len(text) IN
    IF size.hi > 0 \/ size.lo > Len(buffer)
    THEN parsed = Rejected("Incomplete response")
    ELSE /\ parsed.error = NullError
         /\ \A i \in 1..n :
              /\ 16 + 2 * i <= size.lo
              /\ text[i] = buffer[16 + 2 * i - 1] + 256 * buffer[16 + 2 * i]
              /\ text[i] # NUL
         /\ 16 + 2 * (n + 1) <= size.lo =>
              (buffer[16 + 2 * n + 1] = 0 /\ buffer[16 + 2 * n + 2] = 0)

\* A frame followed by two more bytes, with a command that has no NUL: the text
\* is the whole command and the bytes after the frame stay out.
C15_Witness ==
  /\ pc = "parsed"
  /\ Len(buffer) = Len(frame) + 2
  /\ MagicsValid(buffer)
  /\ ReadUInt32LE(buffer, 0) = ToUInt32(Len(frame))
  /\ Len(command) = 2
  /\ ~HasNul(command)
  /\ parsed.data = command

(* --------------------------------------- claims about the response reader *)
\* What readHRDResponse settles to when all the bytes arrive in one 'data' event.
SingleRead(bytes) == Buffered(Concat(<<>>, bytes))

\* C16: however the bytes of a frame are split into chunks delivered in order,
\* readHRDResponse returns what it returns when they arrive in a single read:
\* a resolved reader holds the bytes of the single read, and a reader that has
\* been given all the bytes and is still waiting is one a single read leaves
\* waiting too.
C16_ChunkingInvisible ==
  /\ response.state = "resolved" => response = SingleRead(stream)
  /\ (response.state = "pending" /\ SocketState = "open" /\ incoming = <<>>) =>
       SingleRead(stream).state = "pending"

C16_Witness ==
  /\ response.state = "resolved"
  /\ reads >= 3
  /\ response.value = stream
  /\ Len(stream) > HeaderSize

\* C17: readHRDResponse resolves only once at least 16 bytes and at least the
\* declared size are buffered, and it resolves with exactly the first
\* declared-size bytes of the stream: no fewer, and none of the bytes after them.
C17_ExactFrame ==
  response.state = "resolved" =>
    /\ Len(buffer) >= 16
    /\ LET size == ReadUInt32LE(buffer, 0) IN
         /\ size.hi = 0
         /\ size.lo <= Len(buffer)
         /\ Len(response.value) = size.lo
         /\ response.value = SubSeq(stream, 1, size.lo)

\* Bytes that follow the frame were buffered together with it.
C17_Witness ==
  /\ response.state = "resolved"
  /\ Len(response.value) > HeaderSize
  /\ Len(buffer) > Len(response.value)

\* The connection closed before a complete frame was buffered.
ClosedEarly == SocketState = "closed" /\ ~Complete(buffer)

\* C18: readHRDResponse fails, and returns no data, when the deadline elapses
\* before a complete frame is buffered, and when the stream closes before a
\* complete frame has arrived (at the close in relay.js, at the deadline in
\* relay-server.js).
C18_TimeoutAndCloseFail ==
  /\ [](timeoutHandle = "fired" => response.state = "rejected")
  /\ [](ClosedEarly => response.state # "resolved")
  /\ (ClosedEarly ~> response.state = "rejected")

\* relay-server.js: the stream closed with half a header buffered, the timer fired.
C18_Witness ==
  /\ ~closeListener
  /\ ClosedEarly
  /\ buffer # <<>>
  /\ timeoutHandle = "fired"
  /\ response = Reject("HRD response timeout")

(* ------------------------------------------- claims about sendHRDCommand *)
\* The socket states in which the relay has closed its side or the connection
\* is gone: socket.end() called, closed by the peer, destroyed.
ClosedStates == {"ended", "closed", "destroyed"}

\* C19: every sendHRDCommand call creates a socket of its own; at most one
\* frame is ever written on a socket, exactly one when the call got as far as a
\* parsed response; the sockets of earlier calls are never written to again; and
\* when the call has completed (resolved, or rejected by a frame error, the
\* timeout or a connect error) its socket is ended or destroyed.
C19_OneConnectionPerCommand ==
  [][/\ (result.state # "pending" /\ result'.state = "pending") =>
          /\ Len(sockets') = Len(sockets) + 1
          /\ sockets'[Len(sockets')] = [st |-> "connecting", frames |-> 0]
     /\ \A i \in 1..Len(sockets') : sockets'[i].frames <= 1
     /\ \A i \in 1..Len(sockets) :
          i < Len(sockets') => (sockets'[i] = sockets[i] /\ sockets[i].st \in ClosedStates)
     /\ parsed' # NotParsed => sockets'[Len(sockets')].frames = 1
     /\ result'.state \in {"resolved", "rejected"} =>
          sockets'[Len(sockets')].st \in ClosedStates]_vars

\* A first command answered, a second one whose connection was refused.
C19_Witness ==
  /\ Len(sockets) = 2
  /\ sockets[1] = [st |-> "ended", frames |-> 1]
  /\ sockets[2] = [st |-> "destroyed", frames |-> 0]
  /\ result = Reject("connect ECONNREFUSED")

(* ------------------------------------- claims about answering in the end *)
\* The request was answered because a timer fired.
TimeoutMessages == {"Error: HRD response timeout", "Error: FLRIG connection timeout"}

\* The HRD backend accepted the connection of the request's last command, got
\* the frame and sent nothing back: the failure follows the frame directly.
HrdSilent(rec) ==
  /\ Len(rec.log) >= 3
  /\ rec.log[Len(rec.log)].ev = "error"
  /\ rec.log[Len(rec.log) - 1].ev = "frame"

Failures(rec) == Cardinality({i \in 1..Len(rec.log) : rec.log[i].ev = "error"})

\* The request is answered in this step.
Answered(r) == reqs'[r].st = "done" /\ reqs[r].st # "done"

\* C21: every request handleRequest receives, whatever its method and route,
\* adds exactly one to requestCount and becomes lastRequest, and no other step
\* touches either; the step in which a backend call of a request fails adds
\* exactly one to errorCount, a request fails at most once, and the step that
\* answers a request with success leaves errorCount unchanged.
C21_Counters ==
  /\ [][/\ stats'.requestCount = stats.requestCount + (nReqs' - nReqs)
        /\ stats'.lastRequest = IF nReqs' # nReqs THEN nReqs' ELSE stats.lastRequest
        /\ \A r \in ReqIds :
             /\ Failures(reqs'[r]) > Failures(reqs[r]) =>
                  stats'.errorCount = stats.errorCount + 1
             /\ (Answered(r) /\ reqs'[r].resp.success) =>
                  stats'.errorCount = stats.errorCount
        /\ stats'.errorCount # stats.errorCount =>
             \E r \in ReqIds : /\ Answered(r)
                                /\ ~reqs'[r].resp.success
                                /\ stats'.errorCount = stats.errorCount + 1]_vars
  /\ [](\A r \in ReqIds : Failures(reqs[r]) <= 1)

C21_Witness ==
  \E r \in ReqIds :
    /\ reqs[r].kind = "log"
    /\ Failures(reqs[r]) = 1
    /\ reqs[r].resp.message = "HRD UDP error: send EHOSTUNREACH"
    /\ stats.requestCount = r
    /\ stats.lastRequest = r
    /\ stats.errorCount = 1
\* The prefixes the handlers put before the text of the error.
MessagePrefixes == {"Error: ", "HRD UDP error: ", "N1MM error: "}

\* C22: a request on /test, /frequency or /log that is answered success:false
\* carries a message made of a prefix and the text of the error that made it
\* fail, whichever backend failed (HRD, FLRIG, HRD logbook, N1MM) and for a body
\* that is not JSON.
C22_MessageCarriesError ==
  \A r \in ReqIds :
    (/\ reqs[r].kind \in BackendKinds
     /\ reqs[r].st = "done"
     /\ ~reqs[r].resp.success) =>
       /\ reqs[r].error # ""
       /\ \E p \in MessagePrefixes : reqs[r].resp.message = p \o reqs[r].error

(* --------------------------------------------- claims about the FLRIG client *)
\* The response is a fault, holds a struct or an array, or holds no value.
IsFault(xml) == Contains(xml, "<fault>")
IsStructured(xml) == Contains(xml, "<struct>") \/ Contains(xml, "<array>")
HasNoValue(xml) == ~Contains(xml, ValueTag) \/ Contains(xml, "<value></value>")
Unusable(xml) == IsFault(xml) \/ IsStructured(xml) \/ HasNoValue(xml)

\* C23: an XML-RPC call answered with a fault, with a struct or array value, or
\* with no value is not resolved: once such a response has been read, test() is
\* rejected, and nothing extracted from it is kept.
C23_FaultFails ==
  \A k \in 1..Len(rpcCall.got) :
    Unusable(rpcData[k]) => /\ rpcCall.pc = "done"
                            /\ rpcCall.promise.state = "rejected"

(* ------------------------------------------- claims about what is logged *)
\* The datagrams a request handed to the UDP socket, and the errors it met.
Datagrams(rec) == {k \in 1..Len(rec.log) : rec.log[k].ev = "datagram"}
SendErrors(rec) == {k \in 1..Len(rec.log) : rec.log[k].ev = "error"}

\* The request is a /log request handled with loggingMode n1mm, and is answered.
AnsweredN1mm(rec) ==
  rec.kind = "log" /\ config.loggingMode = "n1mm" /\ rec.st = "done"

\* The request sent one contactreplace datagram to N1MM whose call element is
\* the callsign of the body, and was answered success:true exactly when the
\* send callback got no error.
OneContactSent(rec) ==
  /\ Cardinality(Datagrams(rec)) = 1
  /\ \A k \in Datagrams(rec) : rec.log[k].to = "n1mm" /\ rec.log[k].cmd = "contactreplace"
  /\ SubSeq(rec.datagram, 1, Len("<contactreplace>")) = "<contactreplace>"
  /\ ElementText(rec.datagram, "call") = Template(Get(qsoData(rec.body), "callsign"))
  /\ rec.resp.success <=> SendErrors(rec) = {}

\* C24 as stated: every answered /log request with loggingMode n1mm has sent
\* exactly one contactreplace datagram carrying its callsign, and is answered
\* success:true exactly when the send reported no error.
C24_EveryLogRequest ==
  \A r \in ReqIds : AnsweredN1mm(reqs[r]) => OneContactSent(reqs[r])

\* C24: every answered /log request with loggingMode n1mm whose body is a JSON
\* contact record has sent exactly one UDP datagram, a contactreplace document
\* whose call element is the callsign of the body, and is answered success:true
\* exactly when the send callback got no error; no reply from N1MM is awaited.
\* A request whose body is not JSON has sent nothing and is answered
\* success:false.
C24_OneContactDatagram ==
  \A r \in ReqIds :
    AnsweredN1mm(reqs[r]) =>
      IF reqs[r].body # "bad" THEN OneContactSent(reqs[r])
      ELSE Datagrams(reqs[r]) = {} /\ ~reqs[r].resp.success

C24_Witness ==
  \E r \in ReqIds :
    /\ AnsweredN1mm(reqs[r])
    /\ reqs[r].body = "mobile"
    /\ Cardinality(Datagrams(reqs[r])) = 1
    /\ ElementText(reqs[r].datagram, "call") = "W1AW/P"
    /\ ElementText(reqs[r].datagram, "band") = "OOB"
    /\ reqs[r].resp.success

RECURSIVE LengthsHold(_, _)
\* Reading the ADIF text from the tag at position i: every tag is <NAME:len>
\* followed by exactly len characters of value, up to an end-of-record tag that
\* ends the text.
LengthsHold(adif, i) ==
  LET gt == IndexOf(adif, ">", i)
      tag == SubSeq(adif, i + 1, gt - 1)
      colon == IndexOf(tag, ":", 1)
      declared == parseFloat(Text(SubSeq(tag, colon + 1, Len(tag))))
      next == IndexOf(adif, "<", gt + 1)
  IN /\ i <= Len(adif)
     /\ CharAt(adif, i) = "<"
     /\ gt # 0
     /\ IF tag \in {"eor", "EOR"} THEN gt = Len(adif)
        ELSE /\ colon # 0
             /\ next # 0
             /\ declared = Number(next - gt - 1)
             /\ LengthsHold(adif, next)

\* The builders of ADIF records.
AdifBuilders == {"buildADIFString", "buildADIFRecord"}

\* C25: in every ADIF record built from a contact, by buildADIFString of the
\* relay server and by buildADIFRecord of relay.js, each tag <NAME:len> is
\* followed by a value of exactly len characters, and the record ends with the
\* end-of-record tag.
C25_FieldLengths ==
  (document.by \in AdifBuilders /\ ~document.threw) => LengthsHold(document.text, 1)

\* What the mode table puts out.
ModeOutputs == {"SSB", "FM", "AM", "CW", "RTTY", "PSK", "DIGI"}

\* C26: in the document built from a contact, a mode the table puts out (SSB,
\* FM, AM, CW, RTTY, PSK, DIGI) is written unchanged, USB and LSB are written
\* as SSB, FT8 and FT4 as DIGI, every mode that is not a key of the table is
\* written unchanged, and mapping the written mode again changes nothing.
C26_ModeMapping ==
  (document.by = "buildContactAddXML" /\ Get(qso, "mode").t = "string") =>
    LET mode == Get(qso, "mode").s
        written == ElementText(document.text, "mode")
    IN /\ mode \in ModeOutputs => written = mode
       /\ mode \in {"USB", "LSB"} => written = "SSB"
       /\ mode \in {"FT8", "FT4"} => written = "DIGI"
       /\ mode \notin DOMAIN ModeTable => written = mode
       /\ Template(n1mmMode(Str(written))) = written

\* The names of the bands of a table, and the bands whose range holds x.
BandNames(table) == {table[i].name : i \in 1..Len(table)}
Holding(table, x) == {i \in 1..Len(table) : InBand(x, table[i])}

\* band is the one result for x: the range of at most one band holds x, band is
\* the name of that band, and it is the value none when no range holds x.
OneBand(table, x, none, band) ==
  /\ Cardinality(Holding(table, x)) <= 1
  /\ band \in BandNames(table) \cup {none}
  /\ \A i \in Holding(table, x) : band = table[i].name
  /\ Holding(table, x) = {} <=> band = none

\* C27: convertFreqToBand (Hz) and getBand (kHz) give every frequency one
\* result without throwing: no frequency is in the range of two bands, a
\* frequency in the range of a band gives that band (14100000 Hz gives 20m,
\* 7200 kHz gives 40m), and a frequency in no band (12 MHz) gives the
\* out-of-band value, "OOB" and "" respectively.
C27_BandLookup ==
  /\ document.by = "getBand" =>
       LET freq == Get(qso, "frequency") IN
       /\ ~document.threw
       /\ OneBand(SpotBands, ParsedFloat(freq), "", document.text)
       /\ freq = Str("7200") => document.text = "40m"
       /\ freq = Str("12000") => document.text = ""
  /\ document.by = "buildContactAddXML" =>
       LET frequency == N1mmQSO(qso).frequency
           band == ElementText(document.text, "band")
       IN /\ ~document.threw
          /\ OneBand(N1mmBands, DivMillion(frequency), "OOB", band)
          /\ frequency = Hz(14, 100000) => band = "20m"
          /\ frequency = Hz(12, 0) => band = "OOB"

C27_Witness ==
  /\ document.by = "buildContactAddXML"
  /\ N1mmQSO(qso).frequency = Hz(14, 100000)
  /\ ElementText(document.text, "band") = "20m"

(* ------------------------------------------- claims about the mobile client *)
\* The entries of the internal log that were made for submission id.
EntriesOf(id) == {k \in 1..Len(internalLogs) : internalLogs[k].id = id}

\* The savedReason for each end of HRD logging.
ReasonFor(hrd) ==
  CASE hrd = "disabled" -> "relay-unavailable"
    [] hrd = "success" -> "manual"
    [] OTHER -> "hrd-error"

\* C28: a submission that handleLogSubmit has finished has called
\* saveToInternalLog exactly once, whether HRD was disabled, took the QSO,
\* answered with an error or could not be reached, with savedReason
\* relay-unavailable, manual and hrd-error respectively; the entry is in the
\* internal log exactly once when AsyncStorage took the write (and not at all
\* when it did not), and no entry is ever in the log twice.
C28_SavedOnce ==
  /\ \A id \in 1..MaxSubmits : Cardinality(EntriesOf(id)) <= 1
  /\ submit.pc = "fetch" => submit.saves = 0
  /\ submit.pc \in {"getItem", "setItem"} => submit.saves = 1 /\ EntriesOf(submit.id) = {}
  /\ (submit.pc \in {"idle", "reSpot"} /\ submit.id > 0) =>
       /\ submit.saves = 1
       /\ submit.hrd \in {"disabled"} \cup FetchOutcomes
       /\ submit.hrd = "disabled" <=> ~hrdSettings.enabled
       /\ submit.entry = [id |-> submit.id, savedReason |-> ReasonFor(submit.hrd)]
       /\ IF submit.stored
          THEN \E k \in 1..Len(internalLogs) :
                 EntriesOf(submit.id) = {k} /\ internalLogs[k] = submit.entry
          ELSE EntriesOf(submit.id) = {}

C28_Witness ==
  /\ submit.pc = "idle"
  /\ submit.id = 2
  /\ submit.hrd = "unreachable"
  /\ submit.saves = 1
  /\ Len(internalLogs) = 2
  /\ internalLogs[1] = [id |-> 2, savedReason |-> "hrd-error"]
  /\ internalLogs[2] = [id |-> 1, savedReason |-> "manual"]

(* ------------------------------------------- claims about racing requests *)
\* The positions in the frames written to HRD of the command cmd of request r.
FramesOf(r, cmd) == {k \in 1..Len(rig.frames) : rig.frames[k] = [req |-> r, cmd |-> cmd]}

\* The request that wrote the last frame of the command cmd, Null when none did.
LastWriter(cmd) ==
  LET ks == {k \in 1..Len(rig.frames) : rig.frames[k].cmd = cmd}
  IN IF ks = {} THEN Null ELSE rig.frames[CHOOSE k \in ks : \A j \in ks : j <= k].req

\* C29: nothing orders the frames of different /frequency requests (C29_Witness
\* is the order frequency 1, frequency 2, mode 2, mode 1, which leaves the radio
\* with the frequency of request 2 and the mode of request 1); each request
\* writes its frequency frame and its mode frame at most once and its own
\* frequency frame before its own mode frame, and the radio holds the frequency
\* and the mode of the last frame written for each.
C29_OwnOrderLastWins ==
  /\ \A r \in ReqIds :
       /\ Cardinality(FramesOf(r, "set frequency-hz")) <= 1
       /\ Cardinality(FramesOf(r, "set mode")) <= 1
       /\ \A m \in FramesOf(r, "set mode") : \E f \in FramesOf(r, "set frequency-hz") : f < m
  /\ \A k \in 1..Len(rig.frames) : rig.frames[k].cmd \in {"set frequency-hz", "set mode"}
  /\ rig.frequency = LastWriter("set frequency-hz")
  /\ rig.mode = LastWriter("set mode")

C29_Witness ==
  /\ rig.frames = <<[req |-> 1, cmd |-> "set frequency-hz"], [req |-> 2, cmd |-> "set frequency-hz"],
                    [req |-> 2, cmd |-> "set mode"], [req |-> 1, cmd |-> "set mode"]>>
  /\ rig.frequency = 2
  /\ rig.mode = 1
  /\ \A r \in {1, 2} : reqs[r].st = "done" /\ reqs[r].resp.success

(* ------------------------------------------- claims about the backend clients *)
\* This step is the part of updateConfig that replaces the config: at once on a
\* relay that is not running, in the reaction to stop() on one that is.
Applies ==
  \/ microQ # <<>> /\ microQ' = Tail(microQ)
  \/ /\ nCalls' = nCalls + 1
     /\ out'.call = "update"
     /\ \E i \in 1..Len(out'.settled) : out'.settled[i].res = "ok"

\* The clients after the step are built from the config after the step: an FLRIG
\* client for its port when radioControl is flrig, none otherwise; a new N1MM
\* logger with an open socket for its port when loggingMode is n1mm; otherwise
\* no logger, and the socket of the logger held before the step is closed.
Rebuilt ==
  /\ flrigClient' = IF config'.radioControl = "flrig" THEN FLRIGClient(config'.flrigPort)
                    ELSE NullClient
  /\ IF config'.loggingMode = "n1mm"
     THEN /\ n1mmLogger' \in DOMAIN loggers' \ DOMAIN loggers
          /\ loggers'[n1mmLogger'] = [port |-> config'.n1mmPort, open |-> TRUE]
     ELSE /\ n1mmLogger' = Null
          /\ n1mmLogger # Null => ~loggers'[n1mmLogger].open

\* The clients agree with the config: the FLRIG client exists exactly when
\* radioControl is flrig, the N1MM logger exactly when loggingMode is n1mm, each
\* with the port of the config, the logger's socket open.
ClientsMatch ==
  /\ flrigClient = IF config.radioControl = "flrig" THEN FLRIGClient(config.flrigPort)
                   ELSE NullClient
  /\ IF config.loggingMode = "n1mm"
     THEN n1mmLogger \in DOMAIN loggers
          /\ loggers[n1mmLogger] = [port |-> config.n1mmPort, open |-> TRUE]
     ELSE n1mmLogger = Null

\* C30: the step of updateConfig that replaces the config builds the FLRIG
\* client and the N1MM logger anew from the ports of the new config when their
\* mode is selected; when a mode is not selected its client is dropped, and the
\* socket of the N1MM logger that was held is closed.  No other step of
\* start, stop or updateConfig changes the clients, so they agree with the
\* config in every state these calls reach.
C30_ClientsRebuilt ==
  /\ [][/\ Applies => Rebuilt
        /\ ~Applies => UNCHANGED <<config, flrigClient, n1mmLogger, loggers>>]_vars
  /\ []ClientsMatch

C30_Witness ==
  /\ config.radioControl = "flrig"
  /\ flrigClient = FLRIGClient(AltFlrigPort)
  /\ config.loggingMode = "none"
  /\ n1mmLogger = Null
  /\ isRunning
  /\ \E k \in DOMAIN loggers : loggers[k] = [port |-> AltN1mmPort, open |-> FALSE]

(* ------------------------------------- claims about overlapping API calls *)
\* The servers that hold a listening handle.
Listeners == {s \in CallIds : servers[s].st = "listening"}

\* C31: whenever the event loop is ready for the next API call, at most one
\* HTTP server of the orchestrator is listening, the running flag is set exactly
\* when the server this.httpServer refers to is listening or still closing, and
\* every listening server is the one this.httpServer refers to, so that stop()
\* can close it.
C31_OneListener ==
  Idle =>
    /\ Cardinality(Listeners) <= 1
    /\ isRunning <=> (httpServer # Null /\ servers[httpServer].st \in {"listening", "closing"})
    /\ \A s \in Listeners : s = httpServer

\* C32: whenever the orchestrator is Running (the flag is set, no close is
\* pending, the event loop is ready for the next call), the server this.httpServer
\* refers to is listening on the httpPort of the current config.
C32_ListensOnConfiguredPort ==
  (Idle /\ Lifecycle = "Running") =>
    /\ httpServer # Null
    /\ servers[httpServer].st = "listening"
    /\ servers[httpServer].port = config.httpPort

\* C33: in every state an FLRIG client exists exactly when radioControl is
\* flrig, and an N1MM logger exactly when loggingMode is n1mm.
C33_ClientsExistWhenSelected ==
  /\ flrigClient # NullClient <=> config.radioControl = "flrig"
  /\ n1mmLogger # Null <=> config.loggingMode = "n1mm"

\* The N1MM loggers whose UDP socket is open.
OpenLoggers == {k \in DOMAIN loggers : loggers[k].open}

\* C34: the socket of every N1MM logger the orchestrator created and no
\* longer refers to is closed, so at most one N1MM socket is open.
C34_OrphanedLoggersClosed ==
  /\ \A k \in OpenLoggers : k = n1mmLogger
  /\ Cardinality(OpenLoggers) <= 1

(* ------------------------------------- claims about the counters over time *)
\* The request has met an error: a backend call was rejected, a send failed, or
\* its handler threw.
MetError(rec) == Failures(rec) > 0 \/ rec.error # ""

\* C35: no step lowers requestCount or errorCount, whether it belongs to a
\* request, to start(), stop() or updateConfig(); a step that raises errorCount
\* raises it by one and is the first failure of some request, so each request
\* adds at most one; and errorCount never exceeds requestCount.
C35_CountersMonotone ==
  /\ [][/\ stats'.requestCount >= stats.requestCount
        /\ stats'.errorCount >= stats.errorCount
        /\ stats'.errorCount # stats.errorCount =>
             /\ stats'.errorCount = stats.errorCount + 1
             /\ \E r \in ReqIds : ~MetError(reqs[r]) /\ MetError(reqs'[r])]_vars
  /\ [](stats.errorCount <= stats.requestCount)

\* A request has failed, the relay was stopped and started again, and both
\* counters still stand at one.
C35_Witness ==
  /\ isRunning
  /\ stats.startTime = MaxRelayCalls
  /\ servers[1].st = "closed"
  /\ stats.requestCount = 1
  /\ stats.errorCount = 1

(* ------------------------------------------- claims about a damaged header *)
\* The texts of the errors of the connection itself.
SocketErrors == {"connect ECONNREFUSED", "read ECONNRESET"}

\* C36: once the first 16 bytes received from HRD are buffered and one of the
\* magic constants in them is wrong, a sendHRDCommand call that has settled
\* without an error of the connection has failed with 'Magic mismatch',
\* whatever the size field says and whether or not more bytes arrived.
C36_WrongMagicFails ==
  (/\ Len(buffer) >= HeaderSize
   /\ ~MagicsValid(buffer)
   /\ result.state \in {"resolved", "rejected"}
   /\ result.error \notin SocketErrors) =>
    result = Reject("Magic mismatch")

(* ------------------------------- claims about the mobile client's contacts *)
\* C37: a /log request whose body is the record the mobile client sends,
\* handled with loggingMode hrd, hands exactly one ADIF datagram to the UDP
\* socket and is answered success:true exactly when the send reports no error.
C37_MobileBodyAccepted ==
  \A r \in ReqIds :
    (/\ reqs[r].kind = "log"
     /\ reqs[r].body = "mobile"
     /\ config.loggingMode = "hrd"
     /\ reqs[r].st = "done") =>
      /\ Cardinality(Datagrams(reqs[r])) = 1
      /\ reqs[r].resp.success <=> SendErrors(reqs[r]) = {}

(* --------------------------------------- claims about the internal log *)
\* The entries of the sequence of log entries logs.
Stored(logs) == {logs[k] : k \in 1..Len(logs)}

\* This step is the write of a saveToInternalLog call that reports success.
SaveSucceeds == submit.pc = "setItem" /\ submit'.stored

\* C38: the write of a saveToInternalLog call that reports success leaves every
\* entry that was in storage before it in storage, together with the new entry,
\* also when the read inside the call failed and when a deleteLogEntry ran
\* between the read and the write.
C38_NoEntryLost ==
  [][SaveSucceeds =>
       /\ Stored(internalLogs) \subseteq Stored(internalLogs')
       /\ submit.entry \in Stored(internalLogs')]_vars

(* ------------------------------------------ claims about the band lookups *)
\* The band a lookup returned, with one name for "no band" ('' and 'OOB').
BandOf(name) == IF name \in {"", "OOB"} THEN "none" ELSE name

\* C39: for every frequency, whichever of getBand (kHz), getBandFromFreq (kHz)
\* and convertFreqToBand (Hz) is applied to it returns the band the other two
\* return, up to the name of the out-of-band result.
C39_SameBand ==
  document.by \in {"getBand", "getBandFromFreq", "convertFreqToBand"} =>
    LET freq == Get(qso, "frequency") IN
    /\ BandOf(document.text) = BandOf(getBand(freq))
    /\ BandOf(document.text) = BandOf(getBandFromFreq(freq))
    /\ BandOf(document.text) = BandOf(convertFreqToBand(KHzToHz(ParsedFloat(freq))))
====
